---------------------------- MODULE Spec2Model ----------------------------
(***************************************************************************)
(* Model of the MRS CAN bootloader protocol engine (mrs_bl_protocol.py):   *)
(* the frame codec (struct pack / unpack with ID, length and filter        *)
(* checks), the Interface's detect and scan, and the Module controller's   *)
(* operations (select, EEPROM read and write, flash-mode entry, erase,     *)
(* S-record program, parameter access), driven against a module that may   *)
(* answer every receive with any frame of a fixed repertoire, or not at    *)
(* all.  Operations are called one after another; the flasher's main      *)
(* script (mrs_flasher.py) calls detect, then the Module, and ends with    *)
(* its exception handlers and the final power-off.                         *)
(*                                                                         *)
(* Bytes are integers 0..255, byte strings are sequences of bytes, a CAN   *)
(* frame is [id, data] and its dlc is Len(data).                           *)
(***************************************************************************)
EXTENDS Integers, Sequences, FiniteSets, TLC

(***************************************************************************)
(* Bounds of the model.                                                    *)
(***************************************************************************)
\* most memory records in an uploaded image
MaxRecords == 2
\* longest memory record, in bytes
MaxRecLen == 25
\* most progress frames the module streams during one erase
MaxProgress == 2
\* most frames the module sends while the host waits for its reboot
MaxBootFrames == 2
\* longest direct EEPROM read, in bytes
MaxReadLen == 17
\* most frames buffered on the bus when drain starts
MaxDrain == 2
\* most frames a scan receives, and most pings it sends
MaxScanFrames == 2
MaxPings == 2

(***************************************************************************)
(* CAN IDs (0x1ffffff0 .. 0x1ffffff5, 0x1ffffffe).                         *)
(***************************************************************************)
ACK_ID == 536870896
CMD_ID == 536870897
RSP_ID == 536870898
SREC_ID == 536870899
DATA_ID == 536870900
EEPROM_ID == 536870901
CONSOLE_ID == 536870910

RECEIVE_FILTER == {ACK_ID, RSP_ID, DATA_ID, CONSOLE_ID}

(***************************************************************************)
(* struct formats.  A format is a sequence of items [count, code]: '>HI'   *)
(* is <<H, I>>, '3c' is three one-byte fields, '3s' is one field of three  *)
(* bytes.                                                                  *)
(***************************************************************************)
Item(count, code) == [count |-> count, code |-> code]

CodeSize(code) ==
    CASE code = "B" -> 1
      [] code = "c" -> 1
      [] code = "s" -> 1
      [] code = "H" -> 2
      [] code = "I" -> 4

\* the fields of a format, each [code, n]: n is the field's width in bytes
RECURSIVE Fields(_)
Fields(fmt) ==
    IF fmt = <<>> THEN <<>>
    ELSE LET it == Head(fmt)
         IN  (IF it.code = "s"
              THEN << [code |-> "s", n |-> it.count] >>
              ELSE [i \in 1..it.count |->
                       [code |-> it.code, n |-> CodeSize(it.code)]])
             \o Fields(Tail(fmt))

RECURSIVE SumWidths(_)
SumWidths(fields) ==
    IF fields = <<>> THEN 0 ELSE Head(fields).n + SumWidths(Tail(fields))

\* struct.calcsize
calcsize(fmt) == SumWidths(Fields(fmt))

\* unsigned big-endian encoding of v on n bytes
RECURSIVE BigEndian(_, _)
BigEndian(v, n) ==
    IF n = 0 THEN <<>> ELSE Append(BigEndian(v \div 256, n - 1), v % 256)

\* unsigned big-endian value of a byte string
RECURSIVE FromBigEndian(_)
FromBigEndian(bytes) ==
    IF bytes = <<>> THEN 0
    ELSE 256 * FromBigEndian(SubSeq(bytes, 1, Len(bytes) - 1))
         + bytes[Len(bytes)]

\* bytes[from:] and bytes[:n] of Python
Drop(bytes, n) == SubSeq(bytes, n + 1, Len(bytes))
Take(bytes, n) == SubSeq(bytes, 1, IF n < Len(bytes) THEN n ELSE Len(bytes))

\* one field packed: an integer big-endian, a 'c' needs a bytes object of
\* length 1, an 's' is cut or NUL-padded to its width
PackField(f, v) ==
    CASE f.code = "s" ->
            [i \in 1..f.n |-> IF i <= Len(v) THEN v[i] ELSE 0]
      [] f.code = "c" -> v
      [] OTHER -> BigEndian(v, f.n)

RECURSIVE PackFields(_, _)
PackFields(fields, args) ==
    IF fields = <<>> THEN <<>>
    ELSE PackField(Head(fields), Head(args))
         \o PackFields(Tail(fields), Tail(args))

\* struct.pack: one argument per field, or struct.error
pack(fmt, args) ==
    IF Len(Fields(fmt)) # Len(args)
    THEN [error |-> "struct.error", data |-> <<>>]
    ELSE [error |-> "none", data |-> PackFields(Fields(fmt), args)]

RECURSIVE UnpackFields(_, _)
UnpackFields(fields, bytes) ==
    IF fields = <<>> THEN <<>>
    ELSE LET f == Head(fields)
             v == IF f.code \in {"s", "c"}
                  THEN Take(bytes, f.n)
                  ELSE FromBigEndian(Take(bytes, f.n))
         IN  << v >> \o UnpackFields(Tail(fields), Drop(bytes, f.n))

\* struct.unpack of a buffer of the format's size
unpack(fmt, bytes) == UnpackFields(Fields(fmt), bytes)

(***************************************************************************)
(* Frames.                                                                 *)
(***************************************************************************)
Frame(id, data) == [id |-> id, data |-> data]
NoFrame == Frame(0, <<>>)

\* TXMessage.__init__: the frame, or the error raised while building it
TXMessage(message_id, fmt, args) ==
    LET p == pack(fmt, args)
    IN  [error |-> p.error,
         raw |-> IF p.error = "none" THEN Frame(message_id, p.data)
                 ELSE NoFrame]

MSG_ping == TXMessage(CMD_ID, << Item(1, "H") >>, << 0 >>)

\* 0x2010
MSG_select(module_id) ==
    TXMessage(CMD_ID, << Item(1, "H"), Item(1, "I") >>, << 8208, module_id >>)

\* 0x2003
MSG_read_eeprom(address, count) ==
    TXMessage(CMD_ID, << Item(1, "H"), Item(1, "H"), Item(1, "B") >>,
              << 8195, address, count >>)

\* 0x2011 and b'\xf3\x33\xaf', under the format '>H3c'
MSG_write_eeprom ==
    TXMessage(CMD_ID, << Item(1, "H"), Item(3, "c") >>,
              << 8209, << 243, 51, 175 >> >>)

MSG_write_eeprom_data(address, data) ==
    [error |-> "none",
     raw |-> Frame(EEPROM_ID, BigEndian(address, 2) \o data)]

\* 0x2002
MSG_close_eeprom == TXMessage(CMD_ID, << Item(1, "H") >>, << 8194 >>)

\* 0x2000
MSG_program == TXMessage(CMD_ID, << Item(1, "H") >>, << 8192 >>)

\* 0x0202
MSG_erase == TXMessage(CMD_ID, << Item(1, "H") >>, << 514 >>)

MSG_srecord(data) == [error |-> "none", raw |-> Frame(SREC_ID, data)]

(***************************************************************************)
(* Received messages.  RXMessage is TRUE when the constructor raises no    *)
(* MessageError: the ID, the length and every filter field match.          *)
(***************************************************************************)
Check(value) == [check |-> TRUE, value |-> value]
NoCheck == [check |-> FALSE, value |-> 0]

\* RXMessage.__init__ without the loop over the filter
RXMessage_unfiltered(expected_id, fmt, filter, raw) ==
    /\ raw.id = expected_id
    /\ Len(raw.data) = calcsize(fmt)

RXMessage(expected_id, fmt, filter, raw) ==
    /\ raw.id = expected_id
    /\ Len(raw.data) = calcsize(fmt)
    /\ LET values == unpack(fmt, raw.data)
       IN  \A index \in 1..Len(filter) :
              filter[index].check => filter[index].value = values[index]

FMT_ack == << Item(1, "B"), Item(1, "I"), Item(1, "B"), Item(1, "H") >>
FMT_HIH == << Item(1, "H"), Item(1, "I"), Item(1, "H") >>
FMT_H3s == << Item(1, "H"), Item(3, "s") >>

MSG_ack(raw) ==
    RXMessage(ACK_ID, FMT_ack, << NoCheck, NoCheck, NoCheck, NoCheck >>, raw)

\* reason codes and their names
REASON_MAP ==
    [c \in {0, 1, 17, 33, 49, 65, 81} |->
        CASE c = 0 -> "power-on"
          [] c = 1 -> "reset"
          [] c = 17 -> "low-voltage reset"
          [] c = 33 -> "clock lost"
          [] c = 49 -> "address error"
          [] c = 65 -> "illegal opcode"
          [] c = 81 -> "watchdog timeout"]

\* status codes and their names
STATUS_MAP == [c \in {0, 4} |-> IF c = 0 THEN "OK" ELSE "NO PROG"]

\* the fields of a parsed MSG_ack
ack_fields(raw) ==
    LET v == unpack(FMT_ack, raw.data)
    IN  [reason_code |-> v[1], module_id |-> v[2], status_code |-> v[3],
         sw_version |-> v[4],
         reason |-> IF v[1] \in DOMAIN REASON_MAP THEN REASON_MAP[v[1]]
                    ELSE "unknown",
         status |-> IF v[3] \in DOMAIN STATUS_MAP THEN STATUS_MAP[v[3]]
                    ELSE "unknown"]

\* 0x2110
MSG_selected(raw) ==
    RXMessage(RSP_ID, FMT_HIH, << Check(8464), NoCheck, NoCheck >>, raw)

selected_module_id(raw) == unpack(FMT_HIH, raw.data)[2]

\* 0x2111
MSG_eeprom_open(raw) ==
    RXMessage(RSP_ID, FMT_H3s, << Check(8465), Check(<< 1, 0, 0 >>) >>, raw)

\* 0x20e8
MSG_eeprom_write_ok(raw) ==
    RXMessage(RSP_ID, FMT_H3s, << Check(8424), Check(<< 0, 0, 0 >>) >>, raw)

\* 0x20f0
MSG_eeprom_closed(raw) ==
    RXMessage(RSP_ID, FMT_H3s, << Check(8432), Check(<< 2, 0, 0 >>) >>, raw)

\* 0x2fff
MSG_program_nak(raw) ==
    RXMessage(RSP_ID, FMT_HIH, << Check(12287), NoCheck, NoCheck >>, raw)

\* MSG_program_ack with its opcode filter left unchecked
MSG_program_ack_unfiltered(raw) ==
    RXMessage(RSP_ID, FMT_HIH, << NoCheck, NoCheck, NoCheck >>, raw)

\* 0x2100
MSG_program_ack(raw) ==
    RXMessage(RSP_ID, FMT_HIH, << Check(8448), NoCheck, NoCheck >>, raw)

MSG_progress(raw) ==
    RXMessage(RSP_ID,
              << Item(1, "B"), Item(1, "B"), Item(1, "B"), Item(1, "B") >>,
              << Check(0), NoCheck, NoCheck, Check(0) >>, raw)

FMT_erase_done == << Item(1, "H"), Item(1, "B"), Item(1, "B") >>

\* MSG_erase_done without the test of the status byte
MSG_erase_done_any_status(raw) ==
    RXMessage(RSP_ID, FMT_erase_done, << Check(0), NoCheck, Check(1) >>, raw)

MSG_erase_done(raw) ==
    /\ RXMessage(RSP_ID, FMT_erase_done,
                 << Check(0), NoCheck, Check(1) >>, raw)
    /\ unpack(FMT_erase_done, raw.data)[2] \in {0, 255}

MSG_srec_start_ok(raw) ==
    RXMessage(RSP_ID, << Item(5, "s") >>, << Check(<< 0, 1, 1, 1, 1 >>) >>, raw)

MSG_srec_cont_ok(raw) ==
    RXMessage(RSP_ID, << Item(2, "s") >>, << Check(<< 0, 1 >>) >>, raw)

MSG_srec_end_ok(raw) ==
    RXMessage(RSP_ID, << Item(3, "s") >>, << Check(<< 0, 0, 1 >>) >>, raw)

\* MSG_srecords_done with its payload filter left unchecked
MSG_srecords_done_unfiltered(raw) ==
    RXMessage(RSP_ID, << Item(3, "s") >>, << NoCheck >>, raw)

MSG_srecords_done(raw) ==
    RXMessage(RSP_ID, << Item(3, "s") >>, << Check(<< 0, 18, 52 >>) >>, raw)

MSG_no_program(raw) ==
    RXMessage(RSP_ID, << Item(5, "s") >>, << Check(<< 0, 2, 2, 2, 2 >>) >>, raw)


(***************************************************************************)
(* Module parameters (stored in EEPROM).                                   *)
(***************************************************************************)
PARAMETER_MAGIC == 1331

Param(count, code, name) == [fmt |-> << Item(count, code) >>, name |-> name]

PARAMETER_MAP ==
    << Param(2, "B", "_"),
       Param(1, "H", "_ParameterMagic"),
       Param(1, "I", "SerialNumber"),
       Param(12, "s", "PartNumber"),
       Param(12, "s", "DrawingNumber"),
       Param(20, "s", "Name"),
       Param(8, "s", "OrderNumber"),
       Param(8, "s", "TestDate"),
       Param(1, "H", "HardwareVersion"),
       Param(1, "B", "ResetCounter"),
       Param(1, "H", "LibraryVersion"),
       Param(1, "B", "ResetReasonLVD"),
       Param(1, "B", "ResetReasonLOC"),
       Param(1, "B", "ResetReasonILAD"),
       Param(1, "B", "ResetReasonILOP"),
       Param(1, "B", "ResetReasonCOP"),
       Param(1, "B", "MCUType"),
       Param(1, "B", "HardwareCANActive"),
       Param(3, "B", "Reserved1"),
       Param(1, "H", "BootloaderVersion"),
       Param(1, "H", "ProgramState"),
       Param(1, "H", "Portbyte1"),
       Param(1, "H", "Portbyte2"),
       Param(1, "H", "BaudrateBootloader1"),
       Param(1, "H", "BaudrateBootloader2"),
       Param(1, "B", "BootloaderIDExt1"),
       Param(1, "I", "BootloaderID1"),
       Param(1, "B", "BootloaderIDCRC1"),
       Param(1, "B", "BootloaderIDExt2"),
       Param(1, "I", "BootloaderID2"),
       Param(1, "B", "BootloaderIDCRC2"),
       Param(20, "s", "SoftwareVersion"),
       Param(30, "s", "ModuleName"),
       Param(1, "B", "BootloaderCANBus"),
       Param(1, "H", "COPWatchdogTimeout"),
       Param(7, "B", "Reserved2") >>

\* the write list with a read-only string parameter added
PARAMETER_WRITE_OK_with_Name ==
    {"BaudrateBootloader1", "SoftwareVersion", "ModuleName", "Name"}

\* parameters we allow to be written
PARAMETER_WRITE_OK == {"BaudrateBootloader1", "SoftwareVersion", "ModuleName"}

\* encoding for BaudrateBootloader* parameters
BAUD_MAP ==
    [k \in {1000, 800, 500, 250, 125, 100} |->
        CASE k = 1000 -> << 254, 1 >>
          [] k = 800 -> << 253, 2 >>
          [] k = 500 -> << 252, 3 >>
          [] k = 250 -> << 251, 4 >>
          [] k = 125 -> << 250, 5 >>
          [] k = 100 -> << 246, 9 >>]

\* the scan of _parameter from entry i on, offset being the widths so far
RECURSIVE ParameterScan(_, _, _)
ParameterScan(parameter_name, i, offset) ==
    IF i > Len(PARAMETER_MAP)
    THEN [error |-> "RuntimeError", offset |-> 0, fmt |-> <<>>]
    ELSE IF PARAMETER_MAP[i].name = parameter_name
         THEN [error |-> "none", offset |-> offset,
               fmt |-> PARAMETER_MAP[i].fmt]
         ELSE ParameterScan(parameter_name, i + 1,
                            offset + calcsize(PARAMETER_MAP[i].fmt))

\* the lookup with the entry's own width added before the name is compared
_parameter_offset_after(parameter_name) ==
    LET p == ParameterScan(parameter_name, 1, 0)
    IN  [p EXCEPT !.offset = p.offset + calcsize(p.fmt)]

\* Module._parameter: (offset, fmt) of a name, RuntimeError for an unknown one
_parameter(parameter_name) == ParameterScan(parameter_name, 1, 0)

\* fmt[-1] == 's'
IsStringFmt(fmt) == fmt[Len(fmt)].code = "s"

\* the padding loop of set_parameter: NULs appended up to fmtlen
RECURSIVE PadNul(_, _)
PadNul(value, fmtlen) ==
    IF Len(value) < fmtlen THEN PadNul(Append(value, 0), fmtlen) ELSE value


(***************************************************************************)
(* The module on the bus.  Every receive returns one frame of Replies, or  *)
(* none before the deadline.  Interface.recv hands over only frames whose  *)
(* ID is in RECEIVE_FILTER.                                                *)
(***************************************************************************)
\* the Module object's module_id (0x01020304), and another module's
_module_id == 16909060
OtherId == _module_id + 1

RSP(data) == Frame(RSP_ID, data)
ACK(reason, id) == Frame(ACK_ID, << reason >> \o BigEndian(id, 4) \o << 0, 0, 0 >>)

Replies ==
    { RSP(<< 33, 16 >> \o BigEndian(_module_id, 4) \o << 0, 0 >>),
      RSP(<< 33, 16 >> \o BigEndian(OtherId, 4) \o << 0, 0 >>),
      RSP(<< 47, 255 >> \o BigEndian(_module_id, 4) \o << 0, 0 >>),
      RSP(<< 33, 0 >> \o BigEndian(_module_id, 4) \o << 0, 0 >>),
      RSP(<< 33, 17, 1, 0, 0 >>),
      RSP(<< 33, 17, 0, 0, 0 >>),
      RSP(<< 32, 232, 0, 0, 0 >>),
      RSP(<< 32, 240, 2, 0, 0 >>),
      RSP(<< 0, 1, 5, 0 >>),
      RSP(<< 0, 0, 0, 1 >>),
      RSP(<< 0, 0, 255, 1 >>),
      RSP(<< 0, 0, 7, 1 >>),
      RSP(<< 0, 1, 1, 1, 1 >>),
      RSP(<< 0, 1 >>),
      RSP(<< 0, 0, 1 >>),
      RSP(<< 0, 18, 52 >>),
      RSP(<< 0, 2, 2, 2, 2 >>),
      ACK(1, _module_id),
      ACK(0, _module_id),
      ACK(1, OtherId),
      Frame(CONSOLE_ID, << 104, 105, 0 >>),
      Frame(DATA_ID, << 1, 2, 3, 4 >>) }

\* the byte the module's EEPROM holds at an address: ModuleName holds "X"
\* and NULs up to its width, SoftwareVersion 20 letters, TestDate is erased
\* (ff), every other byte is below 80
EepromByte(a) ==
    LET name == _parameter("ModuleName").offset
        version == _parameter("SoftwareVersion").offset
        date == _parameter("TestDate").offset
    IN  IF a \in name..(name + 29) THEN (IF a = name THEN 88 ELSE 0)
        ELSE IF a \in version..(version + 19) THEN 97 + (a % 26)
        ELSE IF a \in date..(date + 7) THEN 255
        ELSE (a * 7 + 3) % 128

\* DATA frames answering read_eeprom(address, amount): the bytes asked
\* for, or one byte fewer
DataReplies(address, amount) ==
    { Frame(DATA_ID, [i \in 1..n |-> EepromByte(address + i - 1)]) :
        n \in {amount - 1, amount} }

\* frames that may sit in the receive buffer when an operation starts
Pending ==
    { ACK(0, _module_id),
      RSP(<< 33, 16 >> \o BigEndian(_module_id, 4) \o << 0, 0 >>),
      Frame(CONSOLE_ID, << 104, 105, 0 >>) }

\* what a receive may return: a frame, or NoFrame for None
Received(frames) == { f \in frames : f.id \in RECEIVE_FILTER } \cup {NoFrame}

(***************************************************************************)
(* The S-record source: upload_records() yields the memory records and     *)
(* then the terminal record.  Image(n, L) has n memory records, of         *)
(* lengths L, L+1, ... (wrapping in 2..MaxRecLen).                         *)
(***************************************************************************)
RecLen(L, i) == 2 + ((L - 2 + (i - 1)) % (MaxRecLen - 1))
Record(L, i) == [j \in 1..RecLen(L, i) |-> (32 * i + j) % 256]
Image(n, L) == [i \in 1..n |-> Record(L, i)] \o << << 83, 57, 3, 0, 0, 252 >> >>
Images ==
    { Image(n, L) : n \in 1..MaxRecords, L \in 2..MaxRecLen } \cup {Image(0, 2)}

(***************************************************************************)
(* Arguments of set_parameter: a bit rate for the baud rate parameter, a   *)
(* string (of ASCII codes) for the others.                                 *)
(***************************************************************************)
ParameterNames == { PARAMETER_MAP[i].name : i \in 1..Len(PARAMETER_MAP) }
Names == ParameterNames \cup {"NoSuchParameter"}
Str(n) == [i \in 1..n |-> IF i = 1 THEN 88 ELSE 96 + (i % 26)]
Values ==
    { [k |-> k, s |-> <<>>] : k \in {1000, 800, 500, 250, 125, 100, 0, 115, 1001} }
    \cup { [k |-> 0, s |-> Str(n)] : n \in {0, 1, 19, 20, 21, 29, 30, 31} }

(***************************************************************************)
(* State.                                                                  *)
(***************************************************************************)
VARIABLES
    pc,              \* where the running operation stands
    op,              \* the operation called on the Module
    outcome,         \* "none" while running, "ok", or the exception raised
    trace,           \* bus events so far: frames sent, frames received, timeouts
    returned,        \* the subroutines that have returned normally
    rsp,             \* _enter_flash_mode's rsp
    boot_frames,     \* frames received by _wait_for_boot
    progress_calls,  \* calls of _print_progress by _erase
    parameter_name,  \* argument of parameter / set_parameter
    value,           \* argument of set_parameter
    address,         \* _read_eeprom / _write_eeprom: address
    length,          \* _read_eeprom: length still to read
    result,          \* _read_eeprom: result
    requested,       \* the (address, length) _read_eeprom was called with
    data,            \* _write_eeprom: data still to write
    written,         \* the data _write_eeprom was called with
    records,         \* _program: memory_records \o <<terminal_record>>
    rec,             \* _program: index of the record being sent
    srec,            \* _program: what is left of that record
    fragment,        \* _program: which fragment comes next
    srec_log,        \* _program: each SREC frame sent, what was expected, the reply
    retval,          \* what the operation returned to its caller
    signon,          \* detect: the module_id of the sign-on message
    count,           \* drain: frames it may still consume
    modules,         \* scan: the replies collected so far, by module_id
    parsed,          \* the message class and the frame of an RXMessage parse
    sent_last,       \* the last bus event of the earlier operations was a send
    power,           \* the last command given to the power agent
    no_power_off     \* the main script's --no-power-off option

flashvars == << rsp, boot_frames, progress_calls >>
argvars == << parameter_name, value >>
eevars == << address, length, result, requested, data, written >>
srecvars == << records, rec, srec, fragment, srec_log >>
sessionvars == << signon, count, modules, parsed, sent_last, power, no_power_off >>
vars == << pc, op, outcome, trace, returned, rsp, boot_frames, progress_calls,
           parameter_name, value, address, length, result, requested, data,
           written,
           records, rec, srec, fragment, srec_log,
           retval, signon, count, modules, parsed, sent_last, power,
           no_power_off >>

\* a call that returns nothing, or has not returned
NoValue == [type |-> "None"]

Sent(f) == [t |-> "send", f |-> f]
Got(f) == [t |-> "recv", f |-> f]
TimedOut == [t |-> "timeout", f |-> NoFrame]

\* the power agent was told to cut the power, or to apply T30
PowerOff == [t |-> "set_power_off", f |-> NoFrame]
PowerT30 == [t |-> "set_power_t30", f |-> NoFrame]

\* the event a receive leaves in the trace
RecvEvent(r) == IF r = NoFrame THEN TimedOut ELSE Got(r)

Init ==
    /\ pc = "idle"
    /\ op = "none"
    /\ outcome = "none"
    /\ trace = <<>>
    /\ returned = {}
    /\ rsp = NoFrame
    /\ boot_frames = 0
    /\ progress_calls = 0
    /\ parameter_name = ""
    /\ value = [k |-> 0, s |-> <<>>]
    /\ address = 0
    /\ length = 0
    /\ result = <<>>
    /\ requested = [address |-> 0, length |-> 0]
    /\ data = <<>>
    /\ written = <<>>
    /\ records = <<>>
    /\ rec = 0
    /\ srec = <<>>
    /\ fragment = "none"
    /\ srec_log = <<>>
    /\ retval = NoValue
    /\ signon = 0
    /\ count = 0
    /\ modules = << >>
    /\ parsed = [kind |-> "none", raw |-> NoFrame]
    /\ sent_last = FALSE
    /\ power = "none"
    /\ no_power_off = FALSE

\* an exception leaves the operation
Raise(e) == pc' = "done" /\ outcome' = e

\* the operation returns to its caller
Return == pc' = "done" /\ outcome' = "ok"

(***************************************************************************)
(* Module._cmd: send a message, wait for a response.  r is what recv(1)    *)
(* returns, reply_ok whether reply_class(rsp) raises no MessageError       *)
(* (TRUE when no reply_class is given).                                    *)
(***************************************************************************)
\* _cmd without its receive: the message is sent and nothing is waited for
_cmd_send_only(message, r, reply_ok) ==
    [error |-> IF r = NoFrame \/ ~reply_ok THEN "ModuleError" ELSE "none",
     events |-> << Sent(message.raw) >>]

_cmd(message, r, reply_ok) ==
    [error |-> IF r = NoFrame \/ ~reply_ok THEN "ModuleError" ELSE "none",
     events |-> << Sent(message.raw), RecvEvent(r) >>]

(***************************************************************************)
(* Module.upload and Module.erase: both start with _enter_flash_mode.      *)
(***************************************************************************)
upload ==
    /\ pc = "idle"
    /\ op' = "upload"
    /\ pc' = "efm_select"
    /\ UNCHANGED << outcome, trace, returned, flashvars, argvars, eevars, srecvars >>
    /\ UNCHANGED << retval, sessionvars >>

erase ==
    /\ pc = "idle"
    /\ op' = "erase"
    /\ pc' = "efm_select"
    /\ UNCHANGED << outcome, trace, returned, flashvars, argvars, eevars, srecvars >>
    /\ UNCHANGED << retval, sessionvars >>

\* _enter_flash_mode without its last line: it returns whatever rsp is
FlashReady_unchecked(x) ==
    /\ pc' = "erase"
    /\ returned' = returned \cup {"_enter_flash_mode"}
    /\ UNCHANGED outcome

\* the entry into flash mode begun again, from its select, for as long as
\* rsp is no program_ack
FlashReady_retry(x) ==
    IF MSG_program_ack(x)
    THEN /\ pc' = "erase"
         /\ returned' = returned \cup {"_enter_flash_mode"}
         /\ UNCHANGED outcome
    ELSE /\ pc' = "efm_select"
         /\ UNCHANGED << outcome, returned >>

\* the last line of _enter_flash_mode: ready = MSG_program_ack(rsp)
FlashReady(x) ==
    IF MSG_program_ack(x)
    THEN /\ pc' = "erase"
         /\ returned' = returned \cup {"_enter_flash_mode"}
         /\ UNCHANGED outcome
    ELSE /\ Raise("MessageError")
         /\ UNCHANGED returned

\* where each caller of _select goes on
AfterSelect(at) ==
    CASE at = "efm_select" -> "efm_program"
      [] at = "efm_reselect" -> "efm_program2"
      [] at = "read_select" -> "read_loop"
      [] at = "write_select" -> "write_enable"

\* the answer is taken whoever sent it
WrongModule_never(r) == FALSE

\* sel.module_id != self._module_id
WrongModule(r) == selected_module_id(r) # _module_id

(***************************************************************************)
(* Module._select, for each of its callers.  The second _select of         *)
(* _enter_flash_mode runs inside the try block, whose MessageError handler *)
(* passes on to the last line.                                             *)
(***************************************************************************)
_select ==
    /\ pc \in {"efm_select", "efm_reselect", "read_select", "write_select"}
    /\ \E r \in Received(Replies) :
         LET c == _cmd(MSG_select(_module_id), r, TRUE)
         IN  /\ trace' = trace \o c.events
             /\ IF c.error # "none"
                THEN Raise(c.error) /\ UNCHANGED returned
                ELSE IF ~MSG_selected(r)
                THEN IF pc = "efm_reselect"
                     THEN FlashReady(rsp)
                     ELSE Raise("MessageError") /\ UNCHANGED returned
                ELSE IF WrongModule(r)
                THEN Raise("NameError") /\ UNCHANGED returned
                ELSE /\ pc' = AfterSelect(pc)
                     /\ UNCHANGED << outcome, returned >>
    /\ UNCHANGED << op, flashvars, argvars, eevars, srecvars >>
    /\ UNCHANGED << retval, sessionvars >>

(***************************************************************************)
(* Module._enter_flash_mode after a select: rsp = self._cmd(MSG_program()) *)
(* and what follows it, the first time and inside the try block.           *)
(***************************************************************************)
_enter_flash_mode ==
    /\ pc \in {"efm_program", "efm_program2"}
    /\ \E r \in Received(Replies) :
         LET c == _cmd(MSG_program, r, TRUE)
         IN  /\ trace' = trace \o c.events
             /\ IF c.error # "none"
                THEN Raise(c.error) /\ UNCHANGED << returned, rsp >>
                ELSE /\ rsp' = r
                     /\ IF pc = "efm_program" /\ MSG_program_nak(r)
                        THEN /\ pc' = "wait_for_boot"
                             /\ UNCHANGED << outcome, returned >>
                        ELSE FlashReady(r)
    /\ UNCHANGED << op, boot_frames, progress_calls, argvars, eevars, srecvars >>
    /\ UNCHANGED << retval, sessionvars >>

\* the loop left at any sign-on message, whose ever and for any reason
IsBootMessage_any_ack(r) == MSG_ack(r)

\* the test that ends _wait_for_boot's loop
IsBootMessage(r) ==
    /\ MSG_ack(r)
    /\ ack_fields(r).module_id = _module_id
    /\ ack_fields(r).reason = "reboot"

\* a turn of the wait that first has the session controller cycle the
\* module's power
_wait_for_boot_power_cycle ==
    /\ pc = "wait_for_boot"
    /\ \E r \in Received(Replies) :
         /\ r # NoFrame => boot_frames < MaxBootFrames
         /\ trace' = trace \o << PowerOff, PowerT30, RecvEvent(r) >>
         /\ power' = "t30"
         /\ boot_frames' = IF r = NoFrame THEN boot_frames ELSE boot_frames + 1
         /\ IF r = NoFrame
            THEN Raise("ModuleError")
            ELSE IF IsBootMessage(r)
            THEN pc' = "efm_reselect" /\ UNCHANGED outcome
            ELSE UNCHANGED << pc, outcome >>
    /\ UNCHANGED << op, returned, rsp, progress_calls, argvars, eevars, srecvars >>
    /\ UNCHANGED << retval, signon, count, modules, parsed, sent_last,
                    no_power_off >>

(***************************************************************************)
(* Module._wait_for_boot(2): one turn of its loop.                         *)
(***************************************************************************)
_wait_for_boot ==
    /\ pc = "wait_for_boot"
    /\ \E r \in Received(Replies) :
         /\ r # NoFrame => boot_frames < MaxBootFrames
         /\ trace' = Append(trace, RecvEvent(r))
         /\ boot_frames' = IF r = NoFrame THEN boot_frames ELSE boot_frames + 1
         /\ IF r = NoFrame
            THEN Raise("ModuleError")
            ELSE IF IsBootMessage(r)
            THEN pc' = "efm_reselect" /\ UNCHANGED outcome
            ELSE UNCHANGED << pc, outcome >>
    /\ UNCHANGED << op, returned, rsp, progress_calls, argvars, eevars, srecvars >>
    /\ UNCHANGED << retval, sessionvars >>

(***************************************************************************)
(* Module._erase: the erase command, then one turn of the receive loop.    *)
(***************************************************************************)
_erase ==
    /\ pc = "erase"
    /\ trace' = Append(trace, Sent(MSG_erase.raw))
    /\ pc' = "erase_wait"
    /\ UNCHANGED << op, outcome, returned, flashvars, argvars, eevars, srecvars >>
    /\ UNCHANGED << retval, sessionvars >>

_erase_recv ==
    /\ pc = "erase_wait"
    /\ \E r \in Received(Replies) :
         /\ MSG_progress(r) => progress_calls < MaxProgress
         /\ trace' = Append(trace, RecvEvent(r))
         /\ IF r = NoFrame
            THEN Raise("ModuleError") /\ UNCHANGED << returned, progress_calls >>
            ELSE IF MSG_erase_done(r)
            THEN /\ returned' = returned \cup {"_erase"}
                 /\ IF op = "upload"
                    THEN pc' = "program" /\ UNCHANGED outcome
                    ELSE Return
                 /\ UNCHANGED progress_calls
            ELSE IF MSG_progress(r)
            THEN /\ progress_calls' = progress_calls + 1
                 /\ UNCHANGED << pc, outcome, returned >>
            ELSE Raise("ModuleError") /\ UNCHANGED << returned, progress_calls >>
    /\ UNCHANGED << op, rsp, boot_frames, argvars, eevars, srecvars >>
    /\ UNCHANGED << retval, sessionvars >>


(***************************************************************************)
(* Module._program.                                                        *)
(***************************************************************************)
\* records = list(srecords.upload_records()), and the loop's first record
_program_records ==
    /\ pc = "program"
    /\ \E image \in Images :
         /\ records' = image
         /\ rec' = 1
         /\ srec' = image[1]
         /\ fragment' = "first"
         /\ pc' = IF Len(image) > 1 THEN "srec" ELSE "terminal"
    /\ UNCHANGED << op, outcome, trace, returned, flashvars, argvars, eevars,
                    srec_log >>
    /\ UNCHANGED << retval, sessionvars >>

\* do we have enough to send an initial fragment?
InitialFragment(s) == Len(s) > 8

\* the intermediate test off by one: len(srec) >= 8
IntermediateFragment_ge(s) == Len(s) >= 8

\* do we have enough to send intermediate fragments?
IntermediateFragment(s) == Len(s) > 8

\* the fragment the loop body sends next
NextFragment ==
    IF fragment = "first" /\ InitialFragment(srec) THEN "start"
    ELSE IF IntermediateFragment(srec) THEN "middle"
    ELSE "end"

\* whatever answers a fragment is taken for its acknowledgement
FragmentAcked_any(kind, r) == TRUE

\* the parse of the reply to each kind of fragment
FragmentAcked(kind, r) ==
    CASE kind = "start" -> MSG_srec_start_ok(r)
      [] kind = "middle" -> MSG_srec_cont_ok(r)
      [] kind = "end" -> MSG_srec_end_ok(r)
      [] kind = "terminal" -> MSG_srecords_done(r)

LogEntry(kind, bytes, r) ==
    [rec |-> rec, kind |-> kind, data |-> bytes, reply |-> r]

\* one fragment of a memory record: rsp = self._cmd(MSG_srecord(srec[:8]))
_program ==
    /\ pc = "srec"
    /\ \E r \in Received(Replies) :
         LET kind == NextFragment
             c == _cmd(MSG_srecord(Take(srec, 8)), r, TRUE)
         IN  /\ trace' = trace \o c.events
             /\ srec_log' = Append(srec_log, LogEntry(kind, Take(srec, 8), r))
             /\ IF c.error # "none"
                THEN Raise(c.error) /\ UNCHANGED << rec, srec, fragment >>
                ELSE IF ~FragmentAcked(kind, r)
                THEN Raise("ModuleError") /\ UNCHANGED << rec, srec, fragment >>
                ELSE IF kind = "end"
                THEN /\ rec' = rec + 1
                     /\ srec' = records[rec + 1]
                     /\ fragment' = "first"
                     /\ pc' = IF rec + 1 < Len(records) THEN "srec" ELSE "terminal"
                     /\ UNCHANGED outcome
                ELSE /\ srec' = Drop(srec, 8)
                     /\ fragment' = "rest"
                     /\ UNCHANGED << pc, outcome, rec >>
    /\ UNCHANGED << op, returned, flashvars, argvars, eevars, records >>
    /\ UNCHANGED << retval, sessionvars >>

\* send the terminal record
_program_terminal ==
    /\ pc = "terminal"
    /\ \E r \in Received(Replies) :
         LET c == _cmd(MSG_srecord(records[Len(records)]), r, TRUE)
         IN  /\ trace' = trace \o c.events
             /\ srec_log' = Append(srec_log,
                                   LogEntry("terminal", records[Len(records)], r))
             /\ IF c.error # "none"
                THEN Raise(c.error) /\ UNCHANGED returned
                ELSE IF ~FragmentAcked("terminal", r)
                THEN Raise("ModuleError") /\ UNCHANGED returned
                ELSE Return /\ returned' = returned \cup {"_program"}
    /\ UNCHANGED << op, flashvars, argvars, eevars, records, rec, srec, fragment >>
    /\ UNCHANGED << retval, sessionvars >>

(***************************************************************************)
(* Module.parameter and Module._read_eeprom.                               *)
(***************************************************************************)
parameter ==
    /\ pc = "idle"
    /\ \E name \in Names :
         LET p == _parameter(name)
         IN  /\ op' = "parameter"
             /\ parameter_name' = name
             /\ IF p.error # "none"
                THEN Raise(p.error) /\ UNCHANGED << address, length, requested >>
                ELSE /\ address' = p.offset
                     /\ length' = calcsize(p.fmt)
                     /\ requested' = [address |-> p.offset,
                                      length |-> calcsize(p.fmt)]
                     /\ pc' = "read_select"
                     /\ UNCHANGED outcome
    /\ UNCHANGED << trace, returned, flashvars, value, result, data, written,
                    srecvars >>
    /\ UNCHANGED << retval, sessionvars >>

\* a call of _read_eeprom(address, length) itself
_read_eeprom_call ==
    /\ pc = "idle"
    /\ \E a \in {0, 4, 250}, n \in 1..MaxReadLen :
         /\ address' = a
         /\ length' = n
         /\ requested' = [address |-> a, length |-> n]
    /\ op' = "_read_eeprom"
    /\ pc' = "read_select"
    /\ UNCHANGED << outcome, trace, returned, flashvars, argvars, result, data,
                    written, srecvars >>
    /\ UNCHANGED << retval, sessionvars >>

\* the amount never cut down to what is left: always 8
ReadAmount_always8(n) == 8

\* amount = length if length <= 8 else 8
ReadAmount(n) == IF n <= 8 THEN n ELSE 8

\* bytes.decode('ascii')
DecodeAscii(bytes) ==
    IF \E i \in 1..Len(bytes) : bytes[i] > 127
    THEN [error |-> "UnicodeDecodeError", text |-> <<>>]
    ELSE [error |-> "none", text |-> bytes]

\* the digits of f'{n:x}', as ASCII codes
RECURSIVE HexDigits(_)
HexDigits(n) ==
    LET d == n % 16
        c == IF d < 10 THEN 48 + d ELSE 87 + d
    IN  IF n < 16 THEN << c >> ELSE Append(HexDigits(n \div 16), c)

\* f'{n:#x}'
FormatHex(n) == << 48, 120 >> \o HexDigits(n)

\* what parameter() makes of the bytes read: unpack, then a string is
\* decoded, a single integer is formatted, several are left as a tuple
ParameterValue(fmt, bytes) ==
    IF Len(bytes) # calcsize(fmt)
    THEN [error |-> "struct.error", value |-> NoValue]
    ELSE LET v == unpack(fmt, bytes)
         IN  IF IsStringFmt(fmt)
             THEN LET d == DecodeAscii(v[1])
                  IN  [error |-> d.error,
                       value |-> IF d.error = "none"
                                 THEN [type |-> "str", text |-> d.text]
                                 ELSE NoValue]
             ELSE IF Len(v) = 1
             THEN [error |-> "none",
                   value |-> [type |-> "str", text |-> FormatHex(v[1])]]
             ELSE [error |-> "none", value |-> [type |-> "tuple", items |-> v]]

\* one turn of _read_eeprom's loop; after the last, parameter() unpacks
_read_eeprom ==
    /\ pc = "read_loop"
    /\ LET amount == ReadAmount(length)
       IN  \E r \in Received(Replies \cup DataReplies(address, amount)) :
             LET c == _cmd(MSG_read_eeprom(address, amount), r, TRUE)
             IN  /\ trace' = trace \o c.events
                 /\ IF c.error # "none"
                    THEN /\ Raise(c.error)
                         /\ UNCHANGED << returned, address, length, result,
                                         retval >>
                    ELSE IF r.id # DATA_ID
                    THEN /\ Raise("ModuleError")
                         /\ UNCHANGED << returned, address, length, result,
                                         retval >>
                    ELSE /\ length' = length - amount
                         /\ address' = address + amount
                         /\ result' = result \o r.data
                         /\ IF length - amount > 0
                            THEN UNCHANGED << pc, outcome, returned, retval >>
                            ELSE /\ returned' = returned \cup {"_read_eeprom"}
                                 /\ IF op = "parameter"
                                    THEN LET v == ParameterValue(
                                                    _parameter(parameter_name).fmt,
                                                    result \o r.data)
                                         IN  /\ retval' = v.value
                                             /\ IF v.error # "none"
                                                THEN Raise(v.error)
                                                ELSE Return
                                    ELSE /\ retval' = [type |-> "bytes",
                                                       data |-> result \o r.data]
                                         /\ Return
    /\ UNCHANGED << op, flashvars, argvars, requested, data, written, srecvars >>
    /\ UNCHANGED sessionvars

(***************************************************************************)
(* Module.set_parameter and Module._write_eeprom.                          *)
(***************************************************************************)
\* value.encode('ascii')
EncodeAscii(str) ==
    IF \E i \in 1..Len(str) : str[i] > 127
    THEN [error |-> "UnicodeEncodeError", data |-> <<>>]
    ELSE [error |-> "none", data |-> str]

\* what set_parameter does before any bus traffic: the exception it raises,
\* or the (address, data) it calls _write_eeprom with
SetParameterCall(name, v) ==
    IF name \notin PARAMETER_WRITE_OK
    THEN [error |-> "RuntimeError", offset |-> 0, data |-> <<>>]
    ELSE LET p == _parameter(name)
         IN  IF p.error # "none"
             THEN [error |-> p.error, offset |-> 0, data |-> <<>>]
             ELSE IF name = "BaudrateBootloader1"
             THEN IF v.k \in DOMAIN BAUD_MAP
                  THEN [error |-> "none", offset |-> p.offset,
                        data |-> BAUD_MAP[v.k]]
                  ELSE [error |-> "RuntimeError", offset |-> 0, data |-> <<>>]
             ELSE IF IsStringFmt(p.fmt)
             THEN IF Len(v.s) > calcsize(p.fmt)
                  THEN [error |-> "RuntimeError", offset |-> 0, data |-> <<>>]
                  ELSE LET e == EncodeAscii(PadNul(v.s, calcsize(p.fmt)))
                       IN  [error |-> e.error, offset |-> p.offset,
                            data |-> e.data]
             ELSE [error |-> "RuntimeError", offset |-> 0, data |-> <<>>]

set_parameter ==
    /\ pc = "idle"
    /\ \E name \in Names, v \in Values :
         LET call == SetParameterCall(name, v)
         IN  /\ op' = "set_parameter"
             /\ parameter_name' = name
             /\ value' = v
             /\ IF call.error # "none"
                THEN Raise(call.error) /\ UNCHANGED << address, data, written >>
                ELSE /\ address' = call.offset
                     /\ data' = call.data
                     /\ written' = call.data
                     /\ pc' = "write_select"
                     /\ UNCHANGED outcome
    /\ UNCHANGED << trace, returned, flashvars, length, result, requested,
                    srecvars >>
    /\ UNCHANGED << retval, sessionvars >>

\* the message of each step of _write_eeprom, and the parse of its reply
WriteMessage(at) ==
    CASE at = "write_enable" -> MSG_write_eeprom
      [] at = "write_data" -> MSG_write_eeprom_data(address, Take(data, 6))
      [] at = "write_close" -> MSG_close_eeprom

WriteAcked(at, r) ==
    CASE at = "write_enable" -> MSG_eeprom_open(r)
      [] at = "write_data" -> MSG_eeprom_write_ok(r)
      [] at = "write_close" -> MSG_eeprom_closed(r)

\* one _cmd of _write_eeprom after its select: enable, a chunk, or close
_write_eeprom ==
    /\ pc \in {"write_enable", "write_data", "write_close"}
    /\ LET message == WriteMessage(pc)
       IN  IF message.error # "none"
           THEN /\ Raise(message.error)
                /\ UNCHANGED << trace, returned, data >>
           ELSE \E r \in Received(Replies) :
                  LET c == _cmd(message, r, WriteAcked(pc, r))
                      left == IF pc = "write_data" THEN Drop(data, 6) ELSE data
                  IN  /\ trace' = trace \o c.events
                      /\ data' = left
                      /\ IF c.error # "none"
                         THEN Raise(c.error) /\ UNCHANGED returned
                         ELSE IF pc = "write_close"
                         THEN Return /\ returned' = returned \cup {"_write_eeprom"}
                         ELSE /\ pc' = IF Len(left) > 0 THEN "write_data"
                                       ELSE "write_close"
                              /\ UNCHANGED << outcome, returned >>
    /\ UNCHANGED << op, flashvars, argvars, address, length, result, requested,
                    written, srecvars >>
    /\ UNCHANGED << retval, sessionvars >>

\* the frames the while loop of _write_eeprom(address, data) builds, one
\* for each turn: buf = data[:6]; data = data[6:];
\* MSG_write_eeprom_data(address, buf)
RECURSIVE _write_eeprom_frames(_, _)
_write_eeprom_frames(a, d) ==
    IF Len(d) = 0 THEN << >>
    ELSE << MSG_write_eeprom_data(a, Take(d, 6)).raw >>
         \o _write_eeprom_frames(a, Drop(d, 6))

(***************************************************************************)
(* Interface.detect: power off, sleep, drain, T30; the sign-on message;    *)
(* then a select of the module that signed on.                             *)
(***************************************************************************)
detect ==
    /\ pc = "idle"
    /\ op' = "detect"
    /\ trace' = Append(trace, PowerOff)
    /\ power' = "off"
    /\ count' = 100
    /\ pc' = "drain"
    /\ UNCHANGED << outcome, returned, flashvars, argvars, eevars, srecvars,
                    retval, signon, modules, parsed, sent_last, no_power_off >>

\* Interface.drain: one turn of its loop
drain ==
    /\ pc = "drain"
    /\ IF count = 0
       THEN /\ pc' = "detect_t30"
            /\ UNCHANGED << trace, count >>
       ELSE \E r \in Received(Pending) :
              /\ r # NoFrame => 100 - count < MaxDrain
              /\ count' = count - 1
              /\ trace' = Append(trace, RecvEvent(r))
              /\ pc' = IF r = NoFrame THEN "detect_t30" ELSE "drain"
    /\ UNCHANGED << op, outcome, returned, flashvars, argvars, eevars, srecvars,
                    retval, signon, modules, parsed, sent_last,
                    power, no_power_off >>

\* self.set_power_t30()
detect_t30 ==
    /\ pc = "detect_t30"
    /\ trace' = Append(trace, PowerT30)
    /\ power' = "t30"
    /\ pc' = "detect_signon"
    /\ UNCHANGED << op, outcome, returned, flashvars, argvars, eevars, srecvars,
                    retval, signon, count, modules, parsed, sent_last,
                    no_power_off >>

\* the MessageError of the sign-on's parse let through
SignOnError_unpromoted(r) ==
    IF r = NoFrame THEN "ModuleError" ELSE "MessageError"

\* what detect raises when no frame came, or one that is no MSG_ack
SignOnError(r) == "ModuleError"

\* rsp = self.recv(5); signon = MSG_ack(rsp)
detect_signon ==
    /\ pc = "detect_signon"
    /\ \E r \in Received(Replies) :
         /\ trace' = Append(trace, RecvEvent(r))
         /\ IF r = NoFrame \/ ~MSG_ack(r)
            THEN Raise(SignOnError(r)) /\ UNCHANGED signon
            ELSE /\ signon' = ack_fields(r).module_id
                 /\ pc' = "detect_select"
                 /\ UNCHANGED outcome
    /\ UNCHANGED << op, returned, flashvars, argvars, eevars, srecvars,
                    retval, count, modules, parsed, sent_last,
                    power, no_power_off >>

\* self.send(MSG_select(signon.module_id)); rsp = self.recv(1);
\* signon = MSG_selected(rsp); return signon.module_id
detect_select ==
    /\ pc = "detect_select"
    /\ \E r \in Received(Replies) :
         /\ trace' = trace \o << Sent(MSG_select(signon).raw), RecvEvent(r) >>
         /\ IF r = NoFrame \/ ~MSG_selected(r)
            THEN Raise("ModuleError") /\ UNCHANGED << signon, retval >>
            ELSE /\ signon' = selected_module_id(r)
                 /\ retval' = [type |-> "int", n |-> selected_module_id(r)]
                 /\ Return
    /\ UNCHANGED << op, returned, flashvars, argvars, eevars, srecvars,
                    count, modules, parsed, sent_last,
                    power, no_power_off >>

(***************************************************************************)
(* Interface.scan: the all-call message, then replies are collected until  *)
(* a receive times out after the scan's second is over; a timeout before   *)
(* that sends the all-call again.                                          *)
(***************************************************************************)
\* what scan keeps of a reply
ModuleEntry(r) ==
    [status |-> ack_fields(r).status,
     reason |-> ack_fields(r).reason,
     sw_ver |-> ack_fields(r).sw_version]

\* a module answering again keeps its first entry
Collect_first(mods, r) ==
    LET id == ack_fields(r).module_id
    IN  [m \in DOMAIN mods \cup {id} |->
            IF m \in DOMAIN mods THEN mods[m] ELSE ModuleEntry(r)]

\* modules[ack.module_id] = {...}
Collect(mods, r) ==
    LET id == ack_fields(r).module_id
    IN  [m \in DOMAIN mods \cup {id} |->
            IF m = id THEN ModuleEntry(r) ELSE mods[m]]

\* the frames received, and the all-calls sent, so far
FramesReceived == Cardinality({ i \in 1..Len(trace) : trace[i].t = "recv" })
PingsSent == Cardinality({ i \in 1..Len(trace) : trace[i] = Sent(MSG_ping.raw) })

\* what may arrive during a scan: also the ACK of a module without a
\* program, after a low-voltage reset
ScanReplies ==
    Replies \cup { Frame(ACK_ID, << 17 >> \o BigEndian(OtherId, 4) \o << 4, 1, 2 >>) }

scan ==
    /\ pc = "idle"
    /\ op' = "scan"
    /\ modules' = << >>
    /\ trace' = Append(trace, Sent(MSG_ping.raw))
    /\ pc' = "scan_recv"
    /\ UNCHANGED << outcome, returned, flashvars, argvars, eevars, srecvars,
                    retval, signon, count, parsed, sent_last,
                    power, no_power_off >>

\* one turn of scan's loop
scan_recv ==
    /\ pc = "scan_recv"
    /\ \E r \in Received(ScanReplies) :
         IF r # NoFrame
         THEN /\ FramesReceived < MaxScanFrames
              /\ trace' = Append(trace, Got(r))
              /\ IF MSG_ack(r)
                 THEN /\ modules' = Collect(modules, r)
                      /\ UNCHANGED << pc, outcome, retval >>
                 ELSE /\ Raise("MessageError")
                      /\ UNCHANGED << modules, retval >>
         ELSE \E before_end \in BOOLEAN :
                IF before_end
                THEN /\ PingsSent < MaxPings
                     /\ trace' = trace \o << TimedOut, Sent(MSG_ping.raw) >>
                     /\ UNCHANGED << pc, outcome, modules, retval >>
                ELSE /\ trace' = Append(trace, TimedOut)
                     /\ retval' = [type |-> "dict", modules |-> modules]
                     /\ Return
                     /\ UNCHANGED modules
    /\ UNCHANGED << op, returned, flashvars, argvars, eevars, srecvars,
                    signon, count, parsed, sent_last,
                    power, no_power_off >>

(***************************************************************************)
(* A received frame handed to the constructor of a message class.  The     *)
(* frames tried have the class's ID and length; each field carries its     *)
(* filter constant or another value.                                       *)
(***************************************************************************)
FMT_BBBB == << Item(1, "B"), Item(1, "B"), Item(1, "B"), Item(1, "B") >>

Class(id, fmt, filter) == [id |-> id, fmt |-> fmt, filter |-> filter]

\* _format and _filter of each subclass of RXMessage
MessageClasses ==
    [ MSG_ack |-> Class(ACK_ID, FMT_ack, << NoCheck, NoCheck, NoCheck, NoCheck >>),
      MSG_selected |-> Class(RSP_ID, FMT_HIH, << Check(8464), NoCheck, NoCheck >>),
      MSG_eeprom_open |->
          Class(RSP_ID, FMT_H3s, << Check(8465), Check(<< 1, 0, 0 >>) >>),
      MSG_eeprom_write_ok |->
          Class(RSP_ID, FMT_H3s, << Check(8424), Check(<< 0, 0, 0 >>) >>),
      MSG_eeprom_closed |->
          Class(RSP_ID, FMT_H3s, << Check(8432), Check(<< 2, 0, 0 >>) >>),
      MSG_program_nak |-> Class(RSP_ID, FMT_HIH, << Check(12287), NoCheck, NoCheck >>),
      MSG_program_ack |-> Class(RSP_ID, FMT_HIH, << Check(8448), NoCheck, NoCheck >>),
      MSG_progress |->
          Class(RSP_ID, FMT_BBBB, << Check(0), NoCheck, NoCheck, Check(0) >>),
      MSG_erase_done |->
          Class(RSP_ID, FMT_erase_done, << Check(0), NoCheck, Check(1) >>),
      MSG_srec_start_ok |->
          Class(RSP_ID, << Item(5, "s") >>, << Check(<< 0, 1, 1, 1, 1 >>) >>),
      MSG_srec_cont_ok |->
          Class(RSP_ID, << Item(2, "s") >>, << Check(<< 0, 1 >>) >>),
      MSG_srec_end_ok |->
          Class(RSP_ID, << Item(3, "s") >>, << Check(<< 0, 0, 1 >>) >>),
      MSG_srecords_done |->
          Class(RSP_ID, << Item(3, "s") >>, << Check(<< 0, 18, 52 >>) >>),
      MSG_no_program |->
          Class(RSP_ID, << Item(5, "s") >>, << Check(<< 0, 2, 2, 2, 2 >>) >>) ]

\* the constructor of each class: TRUE when it raises no MessageError
Construct(kind, raw) ==
    CASE kind = "MSG_ack" -> MSG_ack(raw)
      [] kind = "MSG_selected" -> MSG_selected(raw)
      [] kind = "MSG_eeprom_open" -> MSG_eeprom_open(raw)
      [] kind = "MSG_eeprom_write_ok" -> MSG_eeprom_write_ok(raw)
      [] kind = "MSG_eeprom_closed" -> MSG_eeprom_closed(raw)
      [] kind = "MSG_program_nak" -> MSG_program_nak(raw)
      [] kind = "MSG_program_ack" -> MSG_program_ack(raw)
      [] kind = "MSG_progress" -> MSG_progress(raw)
      [] kind = "MSG_erase_done" -> MSG_erase_done(raw)
      [] kind = "MSG_srec_start_ok" -> MSG_srec_start_ok(raw)
      [] kind = "MSG_srec_cont_ok" -> MSG_srec_cont_ok(raw)
      [] kind = "MSG_srec_end_ok" -> MSG_srec_end_ok(raw)
      [] kind = "MSG_srecords_done" -> MSG_srecords_done(raw)
      [] kind = "MSG_no_program" -> MSG_no_program(raw)

\* the values tried in a field: for a filtered field its constant and
\* corruptions of it, for another a few values of its width
FieldValues(field, flt) ==
    IF field.code = "s"
    THEN {flt.value}
         \cup { [flt.value EXCEPT ![i] = (@ + 1) % 256] : i \in 1..field.n }
    ELSE IF flt.check
    THEN {flt.value, flt.value + 1, 0}
    ELSE IF field.n = 1 THEN {0, 1, 7, 255}
    ELSE {0, 1, 256 ^ (field.n - 1)}

\* every choice of values for the fields from the i-th on
RECURSIVE FieldChoices(_, _, _)
FieldChoices(fields, filter, i) ==
    IF i > Len(fields) THEN { << >> }
    ELSE { << v >> \o rest : v \in FieldValues(fields[i], filter[i]),
                             rest \in FieldChoices(fields, filter, i + 1) }

\* the frames of a class's ID and length tried on its constructor
TestFrames(kind) ==
    LET c == MessageClasses[kind]
    IN  { Frame(c.id, pack(c.fmt, args).data) :
            args \in FieldChoices(Fields(c.fmt), c.filter, 1) }

parse ==
    /\ pc = "idle"
    /\ op' = "parse"
    /\ \E kind \in DOMAIN MessageClasses :
         \E raw \in TestFrames(kind) :
            /\ parsed' = [kind |-> kind, raw |-> raw]
            /\ IF Construct(kind, raw) THEN Return ELSE Raise("MessageError")
    /\ UNCHANGED << trace, returned, flashvars, argvars, eevars, srecvars,
                    retval, signon, count, modules, sent_last,
                    power, no_power_off >>

(***************************************************************************)
(* The caller, once an operation has returned or raised, makes its next    *)
(* call: the locals of the operation are gone, the bus stays as it was     *)
(* left.                                                                   *)
(***************************************************************************)
\* sends and receive attempts, without the power commands
BusEvents == SelectSeq(trace, LAMBDA e : e.t \in {"send", "recv", "timeout"})

next_call ==
    /\ pc = "done"
    /\ op = "detect" => outcome = "ok"
    /\ sent_last' = IF BusEvents = << >> THEN sent_last
                    ELSE BusEvents[Len(BusEvents)].t = "send"
    /\ pc' = "idle"
    /\ op' = "none"
    /\ outcome' = "none"
    /\ trace' = << >>
    /\ returned' = {}
    /\ rsp' = NoFrame
    /\ boot_frames' = 0
    /\ progress_calls' = 0
    /\ parameter_name' = ""
    /\ value' = [k |-> 0, s |-> << >>]
    /\ address' = 0
    /\ length' = 0
    /\ result' = << >>
    /\ requested' = [address |-> 0, length |-> 0]
    /\ data' = << >>
    /\ written' = << >>
    /\ records' = << >>
    /\ rec' = 0
    /\ srec' = << >>
    /\ fragment' = "none"
    /\ srec_log' = << >>
    /\ retval' = NoValue
    /\ signon' = 0
    /\ count' = 0
    /\ modules' = << >>
    /\ parsed' = [kind |-> "none", raw |-> NoFrame]
    /\ UNCHANGED << power, no_power_off >>

(***************************************************************************)
(* The end of the flasher's main script: the call it made has returned or  *)
(* raised.  ModuleError and MessageError are handled, any other exception  *)
(* ends the script where it was raised; after the handlers the power is    *)
(* cut unless --no-power-off was given.  The option is read nowhere else,  *)
(* its value is drawn here.  The script calls detect first and the Module  *)
(* only once detect has returned; when it ends, the locals of its last     *)
(* call are gone, what it ended with and the power stay.                   *)
(***************************************************************************)
\* except (ModuleError, MessageError)
Handled(e) == e \in {"ModuleError", "MessageError"}

\* the script gets to its last statement
ReachesEnd(e) == e = "ok" \/ Handled(e)

main_exit ==
    /\ pc = "done"
    /\ \/ op = "detect" /\ outcome # "ok"
       \/ op \in {"upload", "erase", "parameter", "set_parameter"} /\ power = "t30"
    /\ \E a \in BOOLEAN :
         /\ no_power_off' = a
         /\ IF ReachesEnd(outcome) /\ ~a
            THEN power' = "off" /\ trace' = << PowerOff >>
            ELSE UNCHANGED power /\ trace' = << >>
    /\ pc' = "exited"
    /\ op' = "none"
    /\ returned' = {}
    /\ rsp' = NoFrame
    /\ boot_frames' = 0
    /\ progress_calls' = 0
    /\ parameter_name' = ""
    /\ value' = [k |-> 0, s |-> << >>]
    /\ address' = 0
    /\ length' = 0
    /\ result' = << >>
    /\ requested' = [address |-> 0, length |-> 0]
    /\ data' = << >>
    /\ written' = << >>
    /\ records' = << >>
    /\ rec' = 0
    /\ srec' = << >>
    /\ fragment' = "none"
    /\ srec_log' = << >>
    /\ retval' = NoValue
    /\ signon' = 0
    /\ count' = 0
    /\ modules' = << >>
    /\ parsed' = [kind |-> "none", raw |-> NoFrame]
    /\ UNCHANGED << outcome, sent_last >>

Next ==
    \/ next_call
    \/ main_exit
    \/ parse
    \/ detect
    \/ scan
    \/ scan_recv
    \/ drain
    \/ detect_t30
    \/ detect_signon
    \/ detect_select
    \/ upload
    \/ erase
    \/ parameter
    \/ set_parameter
    \/ _read_eeprom_call
    \/ _select
    \/ _enter_flash_mode
    \/ _wait_for_boot
    \/ _erase
    \/ _erase_recv
    \/ _program_records
    \/ _program
    \/ _program_terminal
    \/ _read_eeprom
    \/ _write_eeprom

Spec == Init /\ [][Next]_vars


(***************************************************************************)
(* Properties.  They read the bus through the trace, and name frames by    *)
(* their bytes.                                                            *)
(***************************************************************************)
Failed == outcome \notin {"none", "ok"}

\* the positions of the trace where a frame with that ID was sent
SentAt(id) == { i \in 1..Len(trace) : trace[i].t = "send" /\ trace[i].f.id = id }

\* the positions where that very frame was sent
SentFrameAt(f) == { i \in 1..Len(trace) : trace[i] = Sent(f) }

EraseCommand == Frame(CMD_ID, << 2, 2 >>)
ProgramCommand == Frame(CMD_ID, << 32, 0 >>)
SelectCommand == Frame(CMD_ID, << 32, 16, 1, 2, 3, 4 >>)

\* RSP 21 00 ....: program_ack
IsProgramAck(f) ==
    f.id = RSP_ID /\ Len(f.data) = 8 /\ f.data[1] = 33 /\ f.data[2] = 0

\* RSP 2f ff ....: program_nak
IsProgramNak(f) ==
    f.id = RSP_ID /\ Len(f.data) = 8 /\ f.data[1] = 47 /\ f.data[2] = 255

\* RSP 00 00 (00 | ff) 01: erase_done
IsEraseDone(f) ==
    f.id = RSP_ID /\ f.data \in { << 0, 0, 0, 1 >>, << 0, 0, 255, 1 >> }

\* RSP 00 cur max 00: progress
IsProgress(f) ==
    f.id = RSP_ID /\ Len(f.data) = 4 /\ f.data[1] = 0 /\ f.data[4] = 0

\* the frame received at a position of the trace (NoFrame: none was)
FrameAt(i) == IF trace[i].t = "recv" THEN trace[i].f ELSE NoFrame

\* C1: upload enters flash mode, then erases, then programs: the erase
\* command is sent only after a program_ack was received, an SREC frame only
\* after an erase_done was received, and once a phase has failed no frame of
\* a later phase is on the bus.
C1_UploadOrder ==
    op = "upload" =>
      /\ \A i \in SentFrameAt(EraseCommand) :
            \E j \in 1..(i - 1) : IsProgramAck(FrameAt(j))
      /\ \A i \in SentAt(SREC_ID) :
            \E e \in SentFrameAt(EraseCommand) :
               /\ e < i
               /\ \E j \in (e + 1)..(i - 1) : IsEraseDone(FrameAt(j))
      /\ Failed /\ "_enter_flash_mode" \notin returned
            => SentFrameAt(EraseCommand) = {} /\ SentAt(SREC_ID) = {}
      /\ Failed /\ "_erase" \notin returned => SentAt(SREC_ID) = {}

\* an upload that went through its three phases
C1_Witness ==
    /\ op = "upload"
    /\ outcome = "ok"
    /\ returned = {"_enter_flash_mode", "_erase", "_program"}
    /\ Cardinality(SentAt(SREC_ID)) >= 3

\* ACK 01 01 02 03 04 ...: this module's sign-on after a reset
IsRebootAck(f) ==
    /\ f.id = ACK_ID
    /\ Len(f.data) = 8
    /\ f.data[1] = 1
    /\ SubSeq(f.data, 2, 5) = << 1, 2, 3, 4 >>

\* the positions where that sign-on arrives during the wait that follows a
\* program_nak
RebootAckAt ==
    { i \in 1..Len(trace) :
        /\ IsRebootAck(FrameAt(i))
        /\ \E j \in 2..(i - 1) :
              /\ trace[j - 1] = Sent(ProgramCommand)
              /\ IsProgramNak(FrameAt(j))
              /\ \A k \in (j + 1)..(i - 1) : trace[k].t = "recv" }

\* C2: when the module answers program with program_nak and then signs on
\* with its own module_id and reason code 0x01, the wait ends: the host's
\* next frame is a second select, and once a second program is answered by
\* program_ack, _enter_flash_mode has returned normally.
C2_RebootAckReenters ==
    \A i \in RebootAckAt :
       /\ pc # "wait_for_boot"
       /\ i < Len(trace) => trace[i + 1] = Sent(SelectCommand)
       /\ ( /\ Len(trace) >= i + 4
            /\ trace[i + 3] = Sent(ProgramCommand)
            /\ IsProgramAck(FrameAt(i + 4)) )
            => "_enter_flash_mode" \in returned

(***************************************************************************)
(* Erase stream.                                                           *)
(***************************************************************************)
\* where the erase command is in the trace (0: not sent)
EraseAt ==
    IF SentFrameAt(EraseCommand) = {} THEN 0
    ELSE CHOOSE i \in SentFrameAt(EraseCommand) : TRUE

\* the first event after the erase command that is no progress frame
\* (0: none yet)
EraseEndAt ==
    LET ends == { i \in (EraseAt + 1)..Len(trace) : ~IsProgress(FrameAt(i)) }
    IN  IF ends = {} THEN 0
        ELSE CHOOSE i \in ends : \A j \in ends : i <= j

\* the progress frames of the erase stream
ProgressFrames ==
    IF EraseEndAt = 0 THEN Len(trace) - EraseAt ELSE EraseEndAt - EraseAt - 1

\* C3: after the erase command _erase returns normally exactly when an
\* erase_done frame arrives after nothing but progress frames; the progress
\* callback has run once per progress frame; the first frame that is
\* neither, or a timeout, aborts with ModuleError and ends the operation.
C3_EraseStream ==
    EraseAt # 0 =>
      /\ "_erase" \in returned
            <=> (EraseEndAt # 0 /\ IsEraseDone(FrameAt(EraseEndAt)))
      /\ progress_calls = ProgressFrames
      /\ EraseEndAt # 0 /\ ~IsEraseDone(FrameAt(EraseEndAt))
            => /\ outcome = "ModuleError"
               /\ pc = "done"
               /\ EraseEndAt = Len(trace)

\* an erase that saw two progress frames and then erase_done with status ff
C3_Witness ==
    /\ op = "erase"
    /\ outcome = "ok"
    /\ progress_calls = 2
    /\ trace[Len(trace)] = Got(RSP(<< 0, 0, 255, 1 >>))


(***************************************************************************)
(* S-record upload.                                                        *)
(***************************************************************************)
\* the memory records whose end fragment has been acknowledged
Completed == { i \in 1..(Len(records) - 1) : i < rec }

\* the SREC frames sent for memory record i
RecordLog(i) ==
    SelectSeq(srec_log, LAMBDA e : e.rec = i /\ e.kind # "terminal")

RECURSIVE Payloads(_)
Payloads(log) ==
    IF log = <<>> THEN <<>> ELSE Head(log).data \o Payloads(Tail(log))

CeilDiv(n, d) == (n + d - 1) \div d

\* the fragments of a record of length L
ExpectedKinds(L) ==
    IF L <= 8 THEN << "end" >>
    ELSE IF L <= 16 THEN << "start", "end" >>
    ELSE << "start" >>
         \o [k \in 1..(CeilDiv(L - 8, 8) - 1) |-> "middle"]
         \o << "end" >>

\* srec_start_ok, srec_cont_ok, srec_end_ok
ExpectedAck(kind) ==
    CASE kind = "start" -> RSP(<< 0, 1, 1, 1, 1 >>)
      [] kind = "middle" -> RSP(<< 0, 1 >>)
      [] kind = "end" -> RSP(<< 0, 0, 1 >>)

\* the SREC frames on the bus, in order
SrecFramesSent ==
    SelectSeq(trace, LAMBDA e : e.t = "send" /\ e.f.id = SREC_ID)

\* C4: every memory record of length L whose fragments were all
\* acknowledged went out as ceil(L/8) SREC frames whose payloads concatenate
\* to the record: one end frame for L <= 8, a start and an end frame for
\* 8 < L <= 16, a start, ceil((L-8)/8)-1 middle and an end frame for L > 16,
\* acknowledged by srec_start_ok, srec_cont_ok and srec_end_ok.
C4_Fragmentation ==
    /\ [k \in 1..Len(srec_log) |-> srec_log[k].data]
          = [k \in 1..Len(SrecFramesSent) |-> SrecFramesSent[k].f.data]
    /\ \A i \in Completed :
          LET log == RecordLog(i)
              L == Len(records[i])
          IN  /\ Len(log) = CeilDiv(L, 8)
              /\ [k \in 1..Len(log) |-> log[k].kind] = ExpectedKinds(L)
              /\ Payloads(log) = records[i]
              /\ \A k \in 1..Len(log) : log[k].reply = ExpectedAck(log[k].kind)

\* a record of each shape has gone out: at most 8 bytes, and more than 24
C4_Witness ==
    /\ \E i \in Completed : Len(records[i]) > 24
    /\ \E i \in Completed : Len(records[i]) <= 8

\* where the terminal record is in the log
TerminalAt == { t \in 1..Len(srec_log) : srec_log[t].kind = "terminal" }

\* C5: the terminal record goes out as one SREC frame, after the end
\* fragment of every memory record was acknowledged with srec_end_ok;
\* _program returns normally only on srecords_done (00 12 34), and any
\* other reply to the terminal record, no_program included, or none, raises
\* ModuleError.
C5_TerminalRecord ==
    /\ Cardinality(TerminalAt) <= 1
    /\ "_program" \in returned => TerminalAt # {}
    /\ \A t \in TerminalAt :
          /\ t = Len(srec_log)
          /\ pc = "done"
          /\ trace[Len(trace) - 1]
                = Sent(Frame(SREC_ID, records[Len(records)]))
          /\ \A i \in 1..(Len(records) - 1) :
                \E k \in 1..(t - 1) :
                   /\ srec_log[k].rec = i
                   /\ srec_log[k].kind = "end"
                   /\ srec_log[k].reply = RSP(<< 0, 0, 1 >>)
          /\ IF srec_log[t].reply = RSP(<< 0, 18, 52 >>)
             THEN outcome = "ok" /\ "_program" \in returned
             ELSE outcome = "ModuleError" /\ "_program" \notin returned

\* the module rejects the image: no_program after two memory records
C5_Witness ==
    /\ Len(records) = 3
    /\ outcome = "ModuleError"
    /\ \E t \in TerminalAt : srec_log[t].reply = RSP(<< 0, 2, 2, 2, 2 >>)


(***************************************************************************)
(* EEPROM read.                                                            *)
(***************************************************************************)
\* CMD 20 03 addr(2) count: the read_eeprom commands on the bus, in order
ReadCommands ==
    SelectSeq(trace, LAMBDA e : /\ e.t = "send"
                                /\ e.f.id = CMD_ID
                                /\ Len(e.f.data) = 5
                                /\ SubSeq(e.f.data, 1, 2) = << 32, 3 >>)

ReadAddress(e) == 256 * e.f.data[3] + e.f.data[4]
ReadCount(e) == e.f.data[5]

RECURSIVE SumCounts(_, _)
SumCounts(cmds, n) ==
    IF n = 0 THEN 0 ELSE SumCounts(cmds, n - 1) + ReadCount(cmds[n])

\* the DATA frames received, in order
DataFrames ==
    SelectSeq(trace, LAMBDA e : e.t = "recv" /\ e.f.id = DATA_ID)

RECURSIVE FramePayloads(_)
FramePayloads(events) ==
    IF events = <<>> THEN <<>>
    ELSE Head(events).f.data \o FramePayloads(Tail(events))

\* ceil(N/8) commands, each for 1..8 bytes, at consecutive addresses from
\* the one asked for, for N bytes in all
ChunkedRead ==
    LET cmds == ReadCommands
    IN  /\ Len(cmds) = CeilDiv(requested.length, 8)
        /\ \A k \in 1..Len(cmds) :
              /\ ReadCount(cmds[k]) \in 1..8
              /\ ReadAddress(cmds[k]) = requested.address + SumCounts(cmds, k - 1)
        /\ SumCounts(cmds, Len(cmds)) = requested.length

\* a reply to a read command that is no DATA frame raises ModuleError
NonDataReplyIsFatal ==
    \A i \in 1..(Len(trace) - 1) :
       ( /\ trace[i].t = "send"
         /\ trace[i].f.id = CMD_ID
         /\ SubSeq(trace[i].f.data, 1, 2) = << 32, 3 >>
         /\ trace[i + 1].t = "recv"
         /\ trace[i + 1].f.id # DATA_ID )
         => outcome = "ModuleError" /\ pc = "done" /\ i + 1 = Len(trace)

\* C6, as stated: a read of N >= 1 bytes issues ceil(N/8) read_eeprom
\* commands, each with count in 1..8, at consecutive addresses, with counts
\* summing to N, and returns exactly N bytes; a reply that is no DATA frame
\* raises ModuleError.
C6_ReadReturnsExactlyN ==
    op \in {"_read_eeprom", "parameter"} =>
      /\ "_read_eeprom" \in returned
            => ChunkedRead /\ Len(result) = requested.length
      /\ NonDataReplyIsFatal

\* C6, amended: the commands are as stated, and what is returned is the
\* concatenation of the DATA payloads received, which is N bytes when every
\* DATA frame carries as many bytes as its command asked for.
C6_ReadChunking ==
    op \in {"_read_eeprom", "parameter"} =>
      /\ "_read_eeprom" \in returned
            => /\ ChunkedRead
               /\ result = FramePayloads(DataFrames)
               /\ ( \A k \in 1..Len(ReadCommands) :
                       Len(DataFrames[k].f.data) = ReadCount(ReadCommands[k]) )
                    => Len(result) = requested.length
      /\ NonDataReplyIsFatal

\* a read of 17 bytes that took three commands and returned 17 bytes
C6_Witness ==
    /\ op = "_read_eeprom"
    /\ "_read_eeprom" \in returned
    /\ requested.length = 17
    /\ Len(ReadCommands) = 3
    /\ Len(result) = 17

(***************************************************************************)
(* EEPROM write and set_parameter.                                         *)
(***************************************************************************)
WriteEnableCommand == Frame(CMD_ID, << 32, 17, 243, 51, 175 >>)
CloseCommand == Frame(CMD_ID, << 32, 2 >>)

\* selected, eeprom_open, eeprom_write_ok, eeprom_closed
AckOf(f) ==
    IF f = SelectCommand THEN RSP(<< 33, 16, 1, 2, 3, 4, 0, 0 >>)
    ELSE IF f = WriteEnableCommand THEN RSP(<< 33, 17, 1, 0, 0 >>)
    ELSE IF f.id = EEPROM_ID THEN RSP(<< 32, 232, 0, 0, 0 >>)
    ELSE IF f = CloseCommand THEN RSP(<< 32, 240, 2, 0, 0 >>)
    ELSE NoFrame

\* the module has acknowledged every frame of the write
EveryStepAcked ==
    /\ trace # <<>>
    /\ \A i \in 1..Len(trace) :
          IF trace[i].t = "send"
          THEN i < Len(trace) /\ trace[i + 1] = Got(AckOf(trace[i].f))
          ELSE i > 1 /\ trace[i - 1].t = "send"

\* the frames sent, in order
FramesSent ==
    LET sends == SelectSeq(trace, LAMBDA e : e.t = "send")
    IN  [k \in 1..Len(sends) |-> sends[k].f]

\* the EEPROM-ID frames sent, in order
EepromFramesSent == SelectSeq(FramesSent, LAMBDA f : f.id = EEPROM_ID)

RECURSIVE ChunkPayloads(_)
ChunkPayloads(frames) ==
    IF frames = <<>> THEN <<>>
    ELSE Drop(Head(frames).data, 2) \o ChunkPayloads(Tail(frames))

\* C7: a write of n bytes that the module acknowledges step by step puts on
\* the bus one select, one write-enable (20 11 F3 33 AF), ceil(n/6)
\* EEPROM-ID frames and one close_eeprom, and returns normally; no
\* EEPROM-ID frame is sent before eeprom_open was received.
C7_WriteSequence ==
    op = "set_parameter" =>
      /\ pc = "done" /\ EveryStepAcked
            => /\ outcome = "ok"
               /\ Len(FramesSent) = CeilDiv(Len(written), 6) + 3
               /\ FramesSent[1] = SelectCommand
               /\ FramesSent[2] = WriteEnableCommand
               /\ \A k \in 3..(Len(FramesSent) - 1) : FramesSent[k].id = EEPROM_ID
               /\ FramesSent[Len(FramesSent)] = CloseCommand
      /\ \A i \in SentAt(EEPROM_ID) :
            \E j \in 1..(i - 1) : trace[j] = Got(RSP(<< 33, 17, 1, 0, 0 >>))

Writable == {"BaudrateBootloader1", "SoftwareVersion", "ModuleName"}

\* C8: set_parameter completes only for BaudrateBootloader1,
\* SoftwareVersion and ModuleName; for any other name, in the parameter map
\* or not, it raises with no frame sent, so no EEPROM-ID frame goes out for
\* a field that is not writable.
C8_WritableOnly ==
    op = "set_parameter" =>
      /\ outcome = "ok" => parameter_name \in Writable
      /\ parameter_name \notin Writable
            => pc = "done" /\ outcome = "RuntimeError" /\ trace = <<>>
      /\ SentAt(EEPROM_ID) # {} => parameter_name \in Writable

\* set_parameter refused for a read-only parameter of the map and for a
\* string parameter the write list leaves out
C8_Witness ==
    /\ op = "set_parameter"
    /\ parameter_name = "Name"
    /\ value.s = Str(1)
    /\ outcome = "RuntimeError"
    /\ trace = <<>>

\* the 2-byte code of a bit rate
BaudCode(k) ==
    CASE k = 1000 -> << 254, 1 >>
      [] k = 800 -> << 253, 2 >>
      [] k = 500 -> << 252, 3 >>
      [] k = 250 -> << 251, 4 >>
      [] k = 125 -> << 250, 5 >>
      [] k = 100 -> << 246, 9 >>

\* C9: set_parameter('BaudrateBootloader1', k) for k in the table writes the
\* table's 2-byte code: one EEPROM-ID frame at offset 91 (0x5b) carrying the
\* two bytes; for any other k it raises with no frame on the bus, not even a
\* select.
C9_BaudrateEncoding ==
    op = "set_parameter" /\ parameter_name = "BaudrateBootloader1" =>
      IF value.k \in {1000, 800, 500, 250, 125, 100}
      THEN pc = "done" /\ EveryStepAcked
              => /\ outcome = "ok"
                 /\ EepromFramesSent
                       = << Frame(EEPROM_ID, << 0, 91 >> \o BaudCode(value.k)) >>
      ELSE pc = "done" /\ outcome = "RuntimeError" /\ trace = <<>>

\* C10: for SoftwareVersion (20 bytes) and ModuleName (30 bytes) a value
\* longer than the field is refused with no frame sent; otherwise the data
\* written is the value padded with NULs to the field's width, sent in
\* chunks of 6 bytes (5 chunks for ModuleName).
C10_StringWrite ==
    op = "set_parameter" /\ parameter_name \in {"SoftwareVersion", "ModuleName"} =>
      LET width == IF parameter_name = "SoftwareVersion" THEN 20 ELSE 30
      IN  IF Len(value.s) > width
          THEN pc = "done" /\ outcome = "RuntimeError" /\ trace = <<>>
          ELSE /\ written = value.s \o [i \in 1..(width - Len(value.s)) |-> 0]
               /\ pc = "done" /\ EveryStepAcked
                     => /\ outcome = "ok"
                        /\ Len(EepromFramesSent) = CeilDiv(width, 6)
                        /\ ChunkPayloads(EepromFramesSent) = written
                        /\ \A k \in 1..Len(EepromFramesSent) :
                              Len(EepromFramesSent[k].data) <= 8

(***************************************************************************)
(* Parameter read.                                                         *)
(***************************************************************************)
\* a byte string without its trailing NUL bytes
RECURSIVE StripNul(_)
StripNul(bytes) ==
    IF bytes # <<>> /\ bytes[Len(bytes)] = 0
    THEN StripNul(SubSeq(bytes, 1, Len(bytes) - 1))
    ELSE bytes

\* the parameter read is a fixed-width string
StringParameter ==
    /\ op = "parameter"
    /\ parameter_name \in ParameterNames
    /\ IsStringFmt(_parameter(parameter_name).fmt)

\* C11: parameter(name) of a fixed-width string parameter returns the text
\* of the field with its trailing NUL bytes stripped, so that a field holding
\* what set_parameter wrote for a value (the value padded with NULs) reads
\* back as that value.
C11_StringReadStripsNul ==
    StringParameter /\ outcome = "ok" =>
      /\ retval = [type |-> "str", text |-> StripNul(result)]
      /\ \A v \in Values :
            ( /\ SetParameterCall(parameter_name, v).error = "none"
              /\ SetParameterCall(parameter_name, v).data = result
              /\ StripNul(v.s) = v.s )
            => retval = [type |-> "str", text |-> v.s]

\* the widths of the table's fields, in bytes, in the table's order
Widths ==
    << 2, 2, 4, 12, 12, 20, 8, 8, 2, 1, 2, 1, 1, 1, 1, 1, 1, 1, 3, 2, 2, 2, 2,
       2, 2, 1, 4, 1, 1, 4, 1, 20, 30, 1, 2, 7 >>

\* the widths of the first n fields, added up
RECURSIVE WidthsBefore(_)
WidthsBefore(n) == IF n = 0 THEN 0 ELSE WidthsBefore(n - 1) + Widths[n]

\* the first address past the parameter table
TableEnd == WidthsBefore(Len(Widths))

\* where a name stands in the table
IndexOf(name) ==
    CHOOSE i \in 1..Len(PARAMETER_MAP) : PARAMETER_MAP[i].name = name

\* C12: for every name of the parameter map, parameter(name) reads the
\* bytes [offset, offset + width), offset being the widths of the preceding
\* entries added up (2 for the magic, 4 for SerialNumber, which is read by
\* the one command read_eeprom(4, 4)): each command lies inside that range,
\* the commands follow one another from offset on and, once the read has
\* returned, cover the whole range; none reaches the end of the table.
C12_ParameterAddressing ==
    op = "parameter" /\ parameter_name \in ParameterNames =>
      LET offset == WidthsBefore(IndexOf(parameter_name) - 1)
          width == Widths[IndexOf(parameter_name)]
          cmds == ReadCommands
      IN  /\ requested = [address |-> offset, length |-> width]
          /\ \A k \in 1..Len(cmds) :
                /\ ReadAddress(cmds[k]) = offset + SumCounts(cmds, k - 1)
                /\ ReadCount(cmds[k]) >= 1
                /\ ReadAddress(cmds[k]) + ReadCount(cmds[k]) <= offset + width
                /\ ReadAddress(cmds[k]) + ReadCount(cmds[k]) <= TableEnd
          /\ "_read_eeprom" \in returned => SumCounts(cmds, Len(cmds)) = width
          /\ parameter_name = "_ParameterMagic" => offset = 2
          /\ parameter_name = "SerialNumber"
                => /\ offset = 4
                   /\ cmds # <<>>
                         => cmds = << Sent(Frame(CMD_ID, << 32, 3, 0, 4, 4 >>)) >>

\* the last field of the table has been read, up to the table's last byte,
\* and SerialNumber would be read by one command
C12_Witness ==
    /\ op = "parameter"
    /\ parameter_name = "Reserved2"
    /\ outcome = "ok"
    /\ LET last == ReadCommands[Len(ReadCommands)]
       IN  ReadAddress(last) + ReadCount(last) = TableEnd

(***************************************************************************)
(* Selection.                                                              *)
(***************************************************************************)
ModuleOperations == {"upload", "erase", "parameter", "set_parameter", "_read_eeprom"}

\* RSP 21 10 id(4) ver(2): selected
IsSelected(f) ==
    f.id = RSP_ID /\ Len(f.data) = 8 /\ f.data[1] = 33 /\ f.data[2] = 16

\* the module_id a selected response carries
SelectedId(f) == SubSeq(f.data, 3, 6)

\* the positions where a select of the Module was answered by selected
SelectAnsweredAt ==
    { j \in 2..Len(trace) : /\ trace[j - 1] = Sent(SelectCommand)
                            /\ trace[j].t = "recv"
                            /\ IsSelected(trace[j].f) }

\* C13: when the selected response to a Module's select carries another
\* module_id than the Module's, the operation ends there with ModuleError:
\* no frame is sent after it.
C13_WrongModuleIsModuleError ==
    op \in ModuleOperations =>
      \A j \in SelectAnsweredAt :
         SelectedId(trace[j].f) # << 1, 2, 3, 4 >>
            => pc = "done" /\ outcome = "ModuleError" /\ j = Len(trace)

\* the frames that address the selected module: every CMD frame but select
\* (ping is sent by scan only), every SREC and every EEPROM frame
Addressed(f) ==
    \/ f.id \in {SREC_ID, EEPROM_ID}
    \/ f.id = CMD_ID /\ SubSeq(f.data, 1, 2) # << 32, 16 >>

\* C14: every addressed frame of a Module operation (read_eeprom,
\* write-enable, EEPROM data, close_eeprom, program, erase, SREC) is sent
\* after a select of the same operation was answered by a selected response
\* carrying the Module's own module_id.
C14_AddressedAfterSelect ==
    op \in ModuleOperations =>
      \A i \in 1..Len(trace) :
         trace[i].t = "send" /\ Addressed(trace[i].f)
            => \E j \in SelectAnsweredAt :
                  j < i /\ SelectedId(trace[j].f) = << 1, 2, 3, 4 >>

\* an upload has got as far as sending S-records: program, erase and SREC
\* frames have followed its select
C14_Witness ==
    /\ op = "upload"
    /\ SentFrameAt(ProgramCommand) # {}
    /\ SentFrameAt(EraseCommand) # {}
    /\ SentAt(SREC_ID) # {}

(***************************************************************************)
(* detect.                                                                 *)
(***************************************************************************)
\* where T30 was applied (no position: not yet)
T30At == { i \in 1..Len(trace) : trace[i] = PowerT30 }

\* an ACK frame that parses: the right ID and 8 bytes
IsValidAck(f) == f.id = ACK_ID /\ Len(f.data) = 8

\* the module_id bytes of an ACK frame
AckId(f) == SubSeq(f.data, 2, 5)

\* the value of four bytes, big-endian
IdValue(bytes) ==
    ((bytes[1] * 256 + bytes[2]) * 256 + bytes[3]) * 256 + bytes[4]

\* C15: detect() returns the module_id of the ACK frame it received after
\* applying T30, the ID it put in the select command it sent.
C15_DetectReturnsAckId ==
    op = "detect" /\ outcome = "ok" =>
      \A t \in T30At :
         /\ IsValidAck(FrameAt(t + 1))
         /\ trace[t + 2]
               = Sent(Frame(CMD_ID, << 32, 16 >> \o AckId(FrameAt(t + 1))))
         /\ retval = [type |-> "int", n |-> IdValue(AckId(FrameAt(t + 1)))]

\* C16: detect commands power off first, then drains (receives only, up to
\* a quiet window), then applies T30, and only then waits for the sign-on;
\* a select is sent only after a valid ACK frame was received, and when no
\* frame arrives or the first frame after T30 is not a valid ACK, detect
\* raises ModuleError having sent nothing.
C16_DetectOrdering ==
    op = "detect" =>
      /\ trace[1] = PowerOff
      /\ \A i \in 2..Len(trace) : trace[i] # PowerOff
      /\ Cardinality(T30At) <= 1
      /\ pc \in {"detect_signon", "detect_select", "done"} <=> T30At # {}
      /\ \A i \in 2..Len(trace) :
            (T30At = {} \/ \A t \in T30At : i < t)
               => /\ trace[i].t \in {"recv", "timeout"}
                  /\ trace[i].t = "timeout"
                        => i = Len(trace) \/ trace[i + 1] = PowerT30
      /\ \A t \in T30At :
            /\ t >= 2
            /\ \A i \in SentAt(CMD_ID) \cup SentAt(SREC_ID) \cup SentAt(EEPROM_ID) :
                  i = t + 2 /\ IsValidAck(FrameAt(t + 1))
            /\ ( /\ Len(trace) > t
                 /\ ~IsValidAck(FrameAt(t + 1)) )
                  => /\ pc = "done" /\ outcome = "ModuleError"
                     /\ Len(trace) = t + 1
            /\ pc = "detect_select" => IsValidAck(FrameAt(t + 1))

\* two frames were drained before T30, and the first frame after it was no
\* ACK: detect has raised without sending
C16_Witness ==
    /\ op = "detect"
    /\ outcome = "ModuleError"
    /\ \E t \in T30At :
          /\ t = 5
          /\ trace[2].t = "recv" /\ trace[3].t = "recv"
          /\ Len(trace) = t + 1
          /\ IsSelected(FrameAt(t + 1))

(***************************************************************************)
(* scan.                                                                   *)
(***************************************************************************)
\* the valid ACK frames received, in order
AcksReceived ==
    SelectSeq(trace, LAMBDA e : e.t = "recv" /\ IsValidAck(e.f))

ReasonName(code) ==
    CASE code = 0 -> "power-on"
      [] code = 1 -> "reset"
      [] code = 17 -> "low-voltage reset"
      [] code = 33 -> "clock lost"
      [] code = 49 -> "address error"
      [] code = 65 -> "illegal opcode"
      [] code = 81 -> "watchdog timeout"
      [] OTHER -> "unknown"

StatusName(code) ==
    CASE code = 0 -> "OK"
      [] code = 4 -> "NO PROG"
      [] OTHER -> "unknown"

\* status, reason and sw_version of an ACK frame
AckEntry(f) ==
    [status |-> StatusName(f.data[6]),
     reason |-> ReasonName(f.data[1]),
     sw_ver |-> f.data[7] * 256 + f.data[8]]

\* the last ACK received from a module
LastAckOf(id) ==
    LET acks == AcksReceived
        k == CHOOSE k \in 1..Len(acks) :
                /\ IdValue(AckId(acks[k].f)) = id
                /\ \A l \in (k + 1)..Len(acks) : IdValue(AckId(acks[l].f)) # id
    IN  acks[k].f

\* C17: a frame received during the scan that is no valid ACK aborts the
\* scan with MessageError; otherwise the result has one entry for each
\* module_id among the ACKs received, holding the status, reason and
\* sw_version of the most recent ACK of that module.
C17_ScanResult ==
    op = "scan" =>
      /\ \A i \in 1..Len(trace) :
            trace[i].t = "recv" /\ ~IsValidAck(trace[i].f)
               => pc = "done" /\ outcome = "MessageError" /\ i = Len(trace)
      /\ outcome = "MessageError"
            => ~IsValidAck(FrameAt(Len(trace))) /\ trace[Len(trace)].t = "recv"
      /\ outcome = "ok"
            => /\ retval.type = "dict"
               /\ DOMAIN retval.modules
                     = { IdValue(AckId(AcksReceived[k].f)) :
                            k \in 1..Len(AcksReceived) }
               /\ \A id \in DOMAIN retval.modules :
                     retval.modules[id] = AckEntry(LastAckOf(id))

\* a module answered twice, for different reasons, and another once
C17_Witness ==
    /\ op = "scan"
    /\ outcome = "ok"
    /\ Len(AcksReceived) = MaxScanFrames
    /\ AcksReceived[1].f = ACK(1, _module_id)
    /\ AcksReceived[2].f = ACK(0, _module_id)
    /\ PingsSent = 2

(***************************************************************************)
(* Filter enforcement.                                                     *)
(***************************************************************************)
\* a free byte: it belongs to a field that is no filter constant
Free == 0 - 1

\* the bytes each message kind requires, Free where any value will do
FilterBytes ==
    [ MSG_ack |-> << Free, Free, Free, Free, Free, Free, Free, Free >>,
      MSG_selected |-> << 33, 16, Free, Free, Free, Free, Free, Free >>,
      MSG_eeprom_open |-> << 33, 17, 1, 0, 0 >>,
      MSG_eeprom_write_ok |-> << 32, 232, 0, 0, 0 >>,
      MSG_eeprom_closed |-> << 32, 240, 2, 0, 0 >>,
      MSG_program_nak |-> << 47, 255, Free, Free, Free, Free, Free, Free >>,
      MSG_program_ack |-> << 33, 0, Free, Free, Free, Free, Free, Free >>,
      MSG_progress |-> << 0, Free, Free, 0 >>,
      MSG_erase_done |-> << 0, 0, Free, 1 >>,
      MSG_srec_start_ok |-> << 0, 1, 1, 1, 1 >>,
      MSG_srec_cont_ok |-> << 0, 1 >>,
      MSG_srec_end_ok |-> << 0, 0, 1 >>,
      MSG_srecords_done |-> << 0, 18, 52 >>,
      MSG_no_program |-> << 0, 2, 2, 2, 2 >> ]

\* every filter constant of the kind is in the frame
FilterMatches(kind, f) ==
    /\ Len(f.data) = Len(FilterBytes[kind])
    /\ \A i \in 1..Len(f.data) :
          FilterBytes[kind][i] # Free => f.data[i] = FilterBytes[kind][i]

\* C18, as stated: a frame with the right ID and length is rejected with
\* MessageError when a field flagged as a filter constant differs from its
\* constant, and accepted whatever the other fields hold.
C18_FilterEnforcement ==
    op = "parse" =>
      IF FilterMatches(parsed.kind, parsed.raw)
      THEN outcome = "ok"
      ELSE outcome = "MessageError"

\* C18, amended: as stated, but MSG_erase_done also rejects a status byte
\* (its third byte, no filter constant) that is neither 00 nor ff.
C18_FilterAndStatus ==
    op = "parse" =>
      IF /\ FilterMatches(parsed.kind, parsed.raw)
         /\ parsed.kind = "MSG_erase_done" => parsed.raw.data[3] \in {0, 255}
      THEN outcome = "ok"
      ELSE outcome = "MessageError"

\* eeprom_open with the last byte of its constant tail corrupted is refused
C18_Witness ==
    /\ op = "parse"
    /\ parsed = [kind |-> "MSG_eeprom_open", raw |-> RSP(<< 33, 17, 1, 0, 1 >>)]
    /\ outcome = "MessageError"

(***************************************************************************)
(* Send / receive discipline.                                              *)
(***************************************************************************)
\* C19: across any sequence of Interface and Module operations the host
\* never sends two frames without a receive attempt, answered or timed
\* out, between them: no two sends are neighbours among the bus events of
\* an operation, and an operation that begins with a send follows
\* operations whose last bus event was a receive attempt.
C19_SendReceiveAlternation ==
    /\ \A i \in 1..(Len(BusEvents) - 1) :
          BusEvents[i].t = "send" => BusEvents[i + 1].t \in {"recv", "timeout"}
    /\ pc \in {"idle", "done"} /\ BusEvents # << >>
          => BusEvents[Len(BusEvents)].t \in {"recv", "timeout"}
    /\ ~sent_last

\* a scan has sent its all-call twice, a timed-out receive in between
C19_Witness ==
    /\ op = "scan"
    /\ pc = "done"
    /\ BusEvents = << Sent(Frame(CMD_ID, << 0, 0 >>)), TimedOut,
                      Sent(Frame(CMD_ID, << 0, 0 >>)), TimedOut >>

(***************************************************************************)
(* Errors end the operation.                                               *)
(***************************************************************************)
\* the last frame sent before a position of the trace (0: none)
LastSendBefore(i) ==
    LET sends == { j \in 1..(i - 1) : trace[j].t = "send" }
    IN  IF sends = {} THEN 0
        ELSE CHOOSE j \in sends : \A k \in sends : k <= j

\* the acknowledgement the n-th SREC frame waits for
SrecAck(n) ==
    IF srec_log[n].kind = "terminal" THEN RSP(<< 0, 18, 52 >>)
    ELSE ExpectedAck(srec_log[n].kind)

\* the frame received at position i is one the step that received it
\* expects: the reply its command asks for, a progress or erase_done frame
\* in the erase stream, the module's reboot ACK while it is waited for
\* after program_nak
ExpectedAt(i) ==
    LET s == LastSendBefore(i)
        f == trace[s].f
        r == trace[i].f
    IN  /\ s > 0
        /\ IF f = SelectCommand
           THEN i = s + 1 /\ IsSelected(r) /\ SelectedId(r) = << 1, 2, 3, 4 >>
           ELSE IF f = ProgramCommand
           THEN IF i = s + 1
                THEN IsProgramAck(r) \/ (IsProgramNak(r) /\ s = 3)
                ELSE IsProgramNak(FrameAt(s + 1)) /\ IsRebootAck(r)
           ELSE IF f = EraseCommand
           THEN IsProgress(r) \/ IsEraseDone(r)
           ELSE IF f.id = SREC_ID
           THEN i = s + 1
                /\ r = SrecAck(Cardinality({ j \in SentAt(SREC_ID) : j <= s }))
           ELSE IF f.id = CMD_ID /\ SubSeq(f.data, 1, 2) = << 32, 3 >>
           THEN i = s + 1 /\ r.id = DATA_ID
           ELSE i = s + 1 /\ r = AckOf(f)

\* a receive that timed out, or returned a frame the step does not expect
FailedReceiveAt(i) ==
    \/ trace[i].t = "timeout"
    \/ trace[i].t = "recv" /\ ~ExpectedAt(i)

\* C20: in every Module operation, once a receive times out or returns a
\* frame the current step does not expect, the operation sends nothing more
\* and ends with an exception (at once, but for the wait for the reboot,
\* which receives on until a receive times out); a reply to program that
\* fails to parse as program_nak but is a program_ack is the one failed
\* parse after which sending goes on.
C20_ErrorsTerminate ==
    op \in ModuleOperations =>
      /\ \A i \in 1..Len(trace) :
            FailedReceiveAt(i)
               => /\ \A j \in (i + 1)..Len(trace) : trace[j].t # "send"
                  /\ pc \in {"done", "wait_for_boot"}
                  /\ pc = "done" => Failed
                  /\ pc = "wait_for_boot" \/ i < Len(trace)
                        => IsProgramNak(FrameAt(LastSendBefore(i) + 1))
      /\ \A i \in SentFrameAt(EraseCommand) :
            /\ trace[i - 2] = Sent(ProgramCommand)
            /\ IsProgramAck(FrameAt(i - 1))

\* an erase stream broken by a frame that is neither progress nor
\* erase_done, after flash mode was entered on a program_ack
C20_Witness ==
    /\ op = "upload"
    /\ outcome = "ModuleError"
    /\ Len(trace) = 7
    /\ IsProgramAck(FrameAt(4))
    /\ trace[5] = Sent(EraseCommand)
    /\ IsProgress(FrameAt(6))
    /\ FrameAt(7).id = CONSOLE_ID

\* C21: a Module operation that fails because a response is unexpected or
\* malformed (a reply to select that is not a selected message, a reply to
\* program that is neither program_nak nor program_ack) ends with
\* ModuleError, never with MessageError.
C21_ErrorPromotion ==
    op \in ModuleOperations /\ Failed /\ Len(trace) > 0
       /\ trace[Len(trace)].t = "recv"
       => outcome # "MessageError"

(***************************************************************************)
(* The main script's session.                                              *)
(***************************************************************************)
\* C22: once the main script has ended, in a session without
\* --no-power-off, the last command given to the power agent is off,
\* whatever the call it made ended with (a return, ModuleError,
\* MessageError or any other exception).
C22_PowerOffAtExit ==
    pc = "exited" /\ ~no_power_off => power = "off"

(***************************************************************************)
(* EEPROM write addressing.                                                *)
(***************************************************************************)
\* the 16-bit address field of an EEPROM-ID frame
AddressField(f) == FromBigEndian(Take(f.data, 2))

\* C23: the i-th EEPROM-ID frame (i = 0, 1, ...) that _write_eeprom builds
\* for the (address, data) set_parameter passes to it carries the address
\* start + 6*i of its first data byte, and the payloads of the frames put
\* end to end are the data passed in.
C23_ChunkAddresses ==
    op = "set_parameter" /\ written # << >> =>
      LET frames == _write_eeprom_frames(address, written)
      IN  /\ \A k \in 1..Len(frames) :
                AddressField(frames[k]) = address + 6 * (k - 1)
          /\ ChunkPayloads(frames) = written

(***************************************************************************)
(* Flash-mode entry.                                                       *)
(***************************************************************************)
\* the position of the last program command sent, 0 when there is none
LastProgram ==
    LET sends == SentFrameAt(ProgramCommand)
    IN  IF sends = {} THEN 0 ELSE CHOOSE j \in sends : \A k \in sends : k <= j

\* the last program command was answered, at once, by a program_ack
LastProgramAcked ==
    /\ LastProgram > 0
    /\ LastProgram < Len(trace)
    /\ IsProgramAck(FrameAt(LastProgram + 1))

\* C24: in upload and erase, _enter_flash_mode has returned only if the
\* response to the last program command sent was a program_ack; when it has
\* not returned and the operation is over, the operation ended with an
\* exception; and the erase command is on the bus only after
\* _enter_flash_mode returned.
C24_FlashModePostcondition ==
    op \in {"upload", "erase"} =>
      /\ "_enter_flash_mode" \in returned => LastProgramAcked
      /\ pc = "done" /\ "_enter_flash_mode" \notin returned => Failed
      /\ SentFrameAt(EraseCommand) # {}
            => /\ "_enter_flash_mode" \in returned
               /\ \A i \in SentFrameAt(EraseCommand) : i = LastProgram + 2

\* erase() past its flash-mode entry: program_ack received, erase sent
C24_Witness ==
    /\ op = "erase"
    /\ pc = "erase_wait"
    /\ "_enter_flash_mode" \in returned
    /\ Len(trace) = 5
    /\ IsProgramAck(FrameAt(4))
    /\ trace[5] = Sent(EraseCommand)

(***************************************************************************)
(* The wait for the reboot.                                                *)
(***************************************************************************)
\* the positions of the receives of _wait_for_boot: those that follow, with
\* no send in between, a program_nak received in answer to program
WaitAt ==
    { i \in 3..Len(trace) :
        LET s == LastSendBefore(i)
        IN  /\ s > 0
            /\ trace[s] = Sent(ProgramCommand)
            /\ IsProgramNak(FrameAt(s + 1))
            /\ i > s + 1 }

\* an ACK frame of another module, or with a reason that is not the reboot
\* marker 0x01
IsOtherAck(f) ==
    /\ IsValidAck(f)
    /\ AckId(f) # << 1, 2, 3, 4 >> \/ f.data[1] # 1

\* C25: during the wait for the reboot that follows a program_nak, an ACK
\* of another module or with a reason other than the reboot marker neither
\* ends the wait nor raises: the next thing the host does is receive again;
\* and when the wait ends with an exception, the exception is ModuleError
\* and the last receive timed out.
C25_OtherAcksIgnored ==
    op \in {"upload", "erase"} =>
      \A i \in WaitAt :
         /\ IsOtherAck(FrameAt(i))
               => IF i = Len(trace)
                  THEN pc = "wait_for_boot" /\ outcome = "none"
                  ELSE trace[i + 1].t \in {"recv", "timeout"}
         /\ i = Len(trace) /\ pc = "done"
               => outcome = "ModuleError" /\ trace[i] = TimedOut

\* a wait in which an ACK of another module and a power-on ACK of this one
\* were passed over, ended by a timeout
C25_Witness ==
    /\ op = "upload"
    /\ Len(trace) = 7
    /\ IsProgramNak(FrameAt(4))
    /\ FrameAt(5) = ACK(1, OtherId)
    /\ FrameAt(6) = ACK(0, _module_id)
    /\ trace[7] = TimedOut
    /\ outcome = "ModuleError"

(***************************************************************************)
(* Power during the Module's operations.                                   *)
(***************************************************************************)
\* the positions of the power commands in the trace
PowerCommandsAt ==
    { i \in 1..Len(trace) : trace[i].t \in {"set_power_off", "set_power_t30"} }

\* program was answered by program_nak: the entry into flash mode needs a
\* reboot
RebootRequired ==
    \E i \in 2..Len(trace) :
       trace[i - 1] = Sent(ProgramCommand) /\ IsProgramNak(FrameAt(i))

\* C26 as the specification states it: an entry into flash mode that needs
\* a reboot has, when it is over, cycled the power (off, then on again), and
\* every other Module operation issues no power command.
C26_PowerCycleOnReboot ==
    op \in ModuleOperations =>
      IF RebootRequired
      THEN pc = "done"
              => \E i, j \in PowerCommandsAt :
                    i < j /\ trace[i] = PowerOff /\ trace[j] = PowerT30
      ELSE PowerCommandsAt = {}

\* C26: no step of a Module operation (parameter, set_parameter, erase,
\* upload and a direct EEPROM read), the entry into flash mode after a
\* program_nak included, gives the power agent a command: the power is left
\* as it was and the step adds only sends and receives to the bus trace.
C26_PowerUnchanged ==
    [][op' \in ModuleOperations
          => /\ power' = power
             /\ \A i \in (Len(trace) + 1)..Len(trace') :
                   trace'[i].t \in {"send", "recv", "timeout"}]_vars

\* erase() in a session (power at T30 since detect): program answered by
\* program_nak, the wait for the reboot over, no power command given
C26_Witness ==
    /\ op = "erase"
    /\ pc = "done"
    /\ RebootRequired
    /\ trace[Len(trace)] = TimedOut
    /\ PowerCommandsAt = {}
    /\ power = "t30"

\* C27: one call of _enter_flash_mode (the one upload and erase make) puts
\* at most two select commands and at most two program commands on the
\* bus, whatever the module answers.
C27_BoundedResend ==
    op \in {"upload", "erase"} =>
      /\ Cardinality(SentFrameAt(SelectCommand)) <= 2
      /\ Cardinality(SentFrameAt(ProgramCommand)) <= 2

\* an entry into flash mode that is over after program_nak and the module's
\* reboot ACK: select and program have been sent, and not a third time
C27_Witness ==
    /\ op = "upload"
    /\ pc = "done"
    /\ RebootAckAt # {}
    /\ Cardinality(SentFrameAt(SelectCommand)) \in 1..2
    /\ Cardinality(SentFrameAt(ProgramCommand)) \in 1..2

=============================================================================
